---- MODULE Spec2Model ----
(***************************************************************************)
(* Model of the JStory text chunker (src/infrastructure/chunking.py), of   *)
(* the StoryChunk domain model (src/domain/models.py), of the use cases    *)
(* (src/application/use_cases.py) with the services they call, and of the  *)
(* startup preload (src/presentation/api.py).                              *)
(*                                                                         *)
(* A text is a sequence of one-character strings.  Offsets kept by the     *)
(* code (boundaries, current_pos) are Python's 0-based offsets; text[a:b]  *)
(* is SubSeq(text, a + 1, b).                                              *)
(***************************************************************************)
EXTENDS Integers, Sequences, FiniteSets, TLC

VARIABLES chunk_size, chunk_overlap, story_patterns,   \* the chunker's fields
          text, arg_size, arg_overlap,                 \* the arguments of chunk_text
          split_parts,      \* number of sub-chunks the external splitter returns
          pc,               \* "ready", "done" (chunk_text returned), "new", "built",
                            \* "found" (_find_story_boundaries returned);
                            \* in execute: "loaded", "embedded", "returned", "failed";
                            \* in the fixed-window chunker: "sliding", "chunked";
                            \* in the query use cases: "query_embedded", "searched";
                            \* in startup_event: "preloading", "started"
          story_boundaries, \* the local list boundaries of chunk_text, <<>> if not computed
          result,           \* the list chunk_text returned
          log,              \* the calls of chunk_text made on the chunker so far
          arg_id,           \* the id argument of StoryChunk
          story_chunks,     \* the StoryChunk objects constructed
          raised            \* the exception raised, "" if none

\* IngestStoriesUseCase.execute and the services it calls
VARIABLES file_path,        \* the file execute is called on, <<>> before the call
          document,         \* the StoryDocument load_pdf returned, <<>> if none
          blank_parts,      \* positions of result that hold a blank sub-chunk of the splitter
          embeddings,       \* the list generate_embeddings_batch returned
          collection,       \* the ChromaDB collection: one batch of rows per collection.add
          calls,            \* the calls execute made on its services, in order
          uuids,            \* the number of uuid4() calls made so far
          returned          \* the dictionary execute returned, <<>> if none

\* the fixed-window chunker: chunk(text, minWords, maxWords, overlapWords)
VARIABLES minWords, maxWords, overlapWords,   \* its configuration
          words,            \* the whitespace-delimited words of text
          windowStart,      \* the index in words at which the current window starts
          windowChunks      \* the chunks produced so far, the result once pc = "chunked"

\* SearchStoriesUseCase.execute and GenerateResponseUseCase.execute
VARIABLES query, top_k,     \* the arguments of execute
          entry,            \* the use case called: "search" or "respond", "" before the call
          query_embedding,  \* the list generate_embedding returned, <<>> if none
          search_results,   \* the list SearchStoriesUseCase.execute returned
          response,         \* the GeneratedResponse returned, <<>> if none
          query_calls       \* the calls made on the services, with their arguments

\* startup_event
VARIABLES data_dir_exists,  \* whether settings.data_dir exists
          story_files,      \* the list built from the four globs
          attempted,        \* the files execute was called on so far, in order
          total_ingested,   \* the local total_ingested
          startup_log       \* the messages logged by startup_event

\* a service called on its own
VARIABLES direct_call,      \* the method called: "add_chunks" or "generate_embeddings_batch"
          arg_texts,        \* the texts argument of generate_embeddings_batch
          arg_chunks        \* the chunks argument of add_chunks

chunker_vars == <<chunk_size, chunk_overlap, story_patterns, text, arg_size, arg_overlap,
                  split_parts, pc, story_boundaries, result, log, arg_id, story_chunks,
                  raised>>

ingest_vars == <<file_path, document, blank_parts, embeddings, collection, calls, uuids,
                 returned>>

window_vars == <<minWords, maxWords, overlapWords, words, windowStart, windowChunks>>

query_vars == <<query, top_k, entry, query_embedding, search_results, response, query_calls>>

startup_vars == <<data_dir_exists, story_files, attempted, total_ingested, startup_log>>

direct_vars == <<direct_call, arg_texts, arg_chunks>>

service_vars == <<query_vars, startup_vars, direct_vars>>

vars == <<chunker_vars, ingest_vars, window_vars, service_vars>>

(***************************************************************************)
(* Bounds of the model.                                                    *)
(***************************************************************************)
MaxTokens == 4

MaxCallTokens == 2

MaxCalls == 3

\* tokens of a text handed to _find_story_boundaries alone
MaxLineTokens == 4

\* tokens of a text with segments of several lines
MaxCascadeTokens == 4

\* tokens of a text of the fixed-window chunker
MaxWindowTokens == 5

\* largest maxWords, overlapWords and minWords of the fixed-window chunker
MaxWindow == 2

\* tokens of a query
MaxQueryTokens == 2

\* largest top_k of a search
MaxTopK == 3

\* longest list handed to add_chunks or to generate_embeddings_batch
MaxBatch == 3

\* largest number of story files in the data directory
MaxFiles == 2

(***************************************************************************)
(* Characters and Python's str primitives.                                 *)
(***************************************************************************)
NL == "\n"

Whitespace == {" ", "\t", NL, "\r"}

UPPER == <<"A","B","C","D","E","F","G","H","I","J","K","L","M",
           "N","O","P","Q","R","S","T","U","V","W","X","Y","Z">>

LOWER == <<"a","b","c","d","e","f","g","h","i","j","k","l","m",
           "n","o","p","q","r","s","t","u","v","w","x","y","z">>

Digits == {"0","1","2","3","4","5","6","7","8","9"}

IsSpace(c) == c \in Whitespace

UpperLetters == {UPPER[i] : i \in 1..26}

LowerLetters == {LOWER[i] : i \in 1..26}

\* str.lower() on the upper-case letters
LowerOf == [u \in UpperLetters |-> LOWER[CHOOSE i \in 1..26 : UPPER[i] = u]]

IsUpper(c) == c \in UpperLetters

IsLower(c) == c \in LowerLetters

IsDigit(c) == c \in Digits

ToLower(c) == IF IsUpper(c) THEN LowerOf[c] ELSE c

SetMin(S) == CHOOSE m \in S : \A n \in S : m <= n

SetMax(S) == CHOOSE m \in S : \A n \in S : n <= m

\* str.strip(): drop leading and trailing whitespace
strip(s) ==
    LET keep == {i \in 1..Len(s) : ~IsSpace(s[i])}
    IN  IF keep = {} THEN <<>> ELSE SubSeq(s, SetMin(keep), SetMax(keep))

\* sep occurs in s at (1-based) index i
OccursAt(s, sep, i) ==
    /\ i >= 1
    /\ i + Len(sep) - 1 <= Len(s)
    /\ \A k \in 1..Len(sep) : s[i + k - 1] = sep[k]

\* "sep in s"
contains(s, sep) == \E i \in 1..Len(s) : OccursAt(s, sep, i)

\* str.split(sep): cut at the leftmost, non-overlapping occurrences of sep
RECURSIVE split(_, _)
split(s, sep) ==
    LET occ == {i \in 1..Len(s) : OccursAt(s, sep, i)}
    IN  IF occ = {} THEN <<s>>
        ELSE LET i == SetMin(occ)
             IN  <<SubSeq(s, 1, i - 1)>> \o split(SubSeq(s, i + Len(sep), Len(s)), sep)

\* str.count(c) for a single character c
count(s, c) == Cardinality({i \in 1..Len(s) : s[i] = c})

\* str.endswith(c) for a single character c
endswith(s, c) == Len(s) > 0 /\ s[Len(s)] = c

RECURSIVE Flatten(_)
Flatten(ss) == IF ss = <<>> THEN <<>> ELSE Head(ss) \o Flatten(Tail(ss))

(***************************************************************************)
(* Optional[int] arguments: None is <<>>, the integer n is <<n>>.          *)
(***************************************************************************)
None == <<>>

Some(n) == <<n>>

\* Python's "a or b" for an Optional[int] a: None and 0 are falsy
OrElse(a, b) == IF a = None \/ a[1] = 0 THEN b ELSE a[1]

(***************************************************************************)
(* LangChainTextChunker: the boundary signatures of __init__ and their     *)
(* evaluation by re.match(pattern, line_stripped, re.IGNORECASE).          *)
(***************************************************************************)
\* self.story_patterns, in list order
StoryPatterns == <<"Story", "Chapter", "STORY", "Numbered", "Word", "Title">>

\* the character class [A-Z], under re.IGNORECASE when ic
ClassUpper(c, ic) == IsUpper(c) \/ (ic /\ IsLower(c))

\* the character class [a-z], under re.IGNORECASE when ic
ClassLower(c, ic) == IsLower(c) \/ (ic /\ IsUpper(c))

\* a literal word at the start of s
MatchLiteral(s, word, ic) ==
    /\ Len(s) >= Len(word)
    /\ \A i \in 1..Len(word) :
          IF ic THEN ToLower(s[i]) = ToLower(word[i]) ELSE s[i] = word[i]

\* \s+\d+[:\-] right after the first k characters of s
MatchNumberSep(s, k) ==
    \E i \in (k + 1)..Len(s) : \E j \in (i + 1)..(Len(s) - 1) :
        /\ \A m \in (k + 1)..i : IsSpace(s[m])
        /\ \A m \in (i + 1)..j : IsDigit(s[m])
        /\ s[j + 1] \in {":", "-"}

\* ^\d+\.\s+[A-Z]
MatchNumbered(s, ic) ==
    \E i \in 1..Len(s) : \E j \in (i + 2)..(Len(s) - 1) :
        /\ \A m \in 1..i : IsDigit(s[m])
        /\ s[i + 1] = "."
        /\ \A m \in (i + 2)..j : IsSpace(s[m])
        /\ ClassUpper(s[j + 1], ic)

\* ^[A-Z][a-z]+\s+\d+[:\-]
MatchWord(s, ic) ==
    \E k \in 2..Len(s) :
        /\ ClassUpper(s[1], ic)
        /\ \A m \in 2..k : ClassLower(s[m], ic)
        /\ MatchNumberSep(s, k)

\* \n\n[A-Z][^.!?]*\n\n
MatchTitle(s, ic) ==
    /\ Len(s) >= 5
    /\ s[1] = NL /\ s[2] = NL
    /\ ClassUpper(s[3], ic)
    /\ \E j \in 4..(Len(s) - 1) :
          /\ \A m \in 4..(j - 1) : s[m] \notin {".", "!", "?"}
          /\ s[j] = NL /\ s[j + 1] = NL

\* re.match(pattern, s) with the flag re.IGNORECASE when ic
re_match(pattern, s, ic) ==
    CASE pattern = "Story"    -> MatchLiteral(s, <<"S","t","o","r","y">>, ic)
                                    /\ MatchNumberSep(s, 5)
      [] pattern = "Chapter"  -> MatchLiteral(s, <<"C","h","a","p","t","e","r">>, ic)
                                    /\ MatchNumberSep(s, 7)
      [] pattern = "STORY"    -> MatchLiteral(s, <<"S","T","O","R","Y">>, ic)
                                    /\ MatchNumberSep(s, 5)
      [] pattern = "Numbered" -> MatchNumbered(s, ic)
      [] pattern = "Word"     -> MatchWord(s, ic)
      [] pattern = "Title"    -> MatchTitle(s, ic)
      [] OTHER                -> FALSE

\* only the first pattern of the list is tried
MatchesPattern_FirstOnly(patterns, line_stripped) ==
    re_match(patterns[1], line_stripped, TRUE)

\* the pattern loop of _find_story_boundaries (lines 54-58)
MatchesPattern(patterns, line_stripped) ==
    \E p \in 1..Len(patterns) : re_match(patterns[p], line_stripped, TRUE)

\* the blank-line heuristic of _find_story_boundaries (lines 61-67);
\* i is the 1-based index of the line
TitleMaxLen == 100

BlankLineHeuristic(lines, i) ==
    /\ i > 1
    /\ strip(lines[i]) = <<>>
    /\ i < Len(lines)
    /\ LET next_line == strip(lines[i + 1])
       IN  /\ next_line # <<>>
           /\ Len(next_line) < TitleMaxLen
           /\ ~endswith(next_line, ".")

\* "if is_boundary:" for "if is_boundary and current_pos > 0:"
RECURSIVE BoundaryLoop_NoPosCheck(_, _, _, _, _)
BoundaryLoop_NoPosCheck(patterns, lines, i, current_pos, boundaries) ==
    IF i > Len(lines) THEN boundaries
    ELSE LET is_boundary == \/ MatchesPattern(patterns, strip(lines[i]))
                            \/ BlankLineHeuristic(lines, i)
         IN  BoundaryLoop_NoPosCheck(patterns, lines, i + 1,
                                     current_pos + Len(lines[i]) + 1,
                                     IF is_boundary
                                         THEN Append(boundaries, current_pos)
                                         ELSE boundaries)

\* "current_pos += len(line)" for "current_pos += len(line) + 1"
RECURSIVE BoundaryLoop_NoNewline(_, _, _, _, _)
BoundaryLoop_NoNewline(patterns, lines, i, current_pos, boundaries) ==
    IF i > Len(lines) THEN boundaries
    ELSE LET is_boundary == \/ MatchesPattern(patterns, strip(lines[i]))
                            \/ BlankLineHeuristic(lines, i)
         IN  BoundaryLoop_NoNewline(patterns, lines, i + 1,
                                    current_pos + Len(lines[i]),
                                    IF is_boundary /\ current_pos > 0
                                        THEN Append(boundaries, current_pos)
                                        ELSE boundaries)

\* the for loop of _find_story_boundaries, from line i on
RECURSIVE BoundaryLoop(_, _, _, _, _)
BoundaryLoop(patterns, lines, i, current_pos, boundaries) ==
    IF i > Len(lines) THEN boundaries
    ELSE LET is_boundary == \/ MatchesPattern(patterns, strip(lines[i]))
                            \/ BlankLineHeuristic(lines, i)
         IN  BoundaryLoop(patterns, lines, i + 1, current_pos + Len(lines[i]) + 1,
                          IF is_boundary /\ current_pos > 0
                              THEN Append(boundaries, current_pos)
                              ELSE boundaries)

find_story_boundaries(patterns, txt) ==
    BoundaryLoop(patterns, split(txt, <<NL>>), 1, 0, <<0>>)

(***************************************************************************)
(* chunk_text.  A returned chunk is a record: [content |-> s] for a story  *)
(* the chunker returns itself, and for a sub-chunk of the external         *)
(* RecursiveCharacterTextSplitter a record of the call that made it (the   *)
(* text passed to split_text, the splitter's chunk_size and chunk_overlap) *)
(* and its position among the sub-chunks of that call.                     *)
(***************************************************************************)
OversizeFactor == 3

Story(s) == [content |-> s]

IsStory(c) == "content" \in DOMAIN c

\* splitter.split_text(chunk): parts sub-chunks, in order
split_text(chunk, size, overlap, parts) ==
    [k \in 1..parts |->
        [split_of |-> chunk, part |-> k, chunk_size |-> size, chunk_overlap |-> overlap]]

\* the oversize test and the fallback left out
StoryOrSplit_NoFallback(s, size, overlap, parts) == <<Story(s)>>

\* len(chunk) >= chunk_size * 3 for len(chunk) > chunk_size * 3
StoryOrSplit_AtThreshold(s, size, overlap, parts) ==
    IF Len(s) >= size * OversizeFactor
        THEN split_text(s, size, overlap, parts)
        ELSE <<Story(s)>>

\* the oversize test and fallback applied to one trimmed story (lines 111-123, 146-158)
StoryOrSplit(s, size, overlap, parts) ==
    IF Len(s) > size * OversizeFactor
        THEN split_text(s, size, overlap, parts)
        ELSE <<Story(s)>>

\* [chunk.strip() for chunk in potential_chunks if chunk.strip()]
RECURSIVE StripNonEmpty(_)
StripNonEmpty(ss) ==
    IF ss = <<>> THEN <<>>
    ELSE (IF strip(Head(ss)) # <<>> THEN <<strip(Head(ss))>> ELSE <<>>)
             \o StripNonEmpty(Tail(ss))

\* final_chunks.insert(0, ...) for final_chunks.append(...)
RECURSIVE FinalChunks_Reversed(_, _, _, _)
FinalChunks_Reversed(chunks, size, overlap, parts) ==
    IF chunks = <<>> THEN <<>>
    ELSE FinalChunks_Reversed(Tail(chunks), size, overlap, parts)
             \o StoryOrSplit(Head(chunks), size, overlap, parts)

\* the loop over chunks of the blank-line branch (lines 109-123)
RECURSIVE FinalChunks(_, _, _, _)
FinalChunks(chunks, size, overlap, parts) ==
    IF chunks = <<>> THEN <<>>
    ELSE StoryOrSplit(Head(chunks), size, overlap, parts)
             \o FinalChunks(Tail(chunks), size, overlap, parts)

\* the test that opens the blank-line branch (line 99)
BlankLineBranch(txt) ==
    \/ contains(txt, <<NL, NL>>)
    \/ 10 * count(txt, NL) > count(txt, " ")

\* the test "if not story_text: continue" left out
RECURSIVE PatternChunks_KeepEmpty(_, _, _, _, _, _)
PatternChunks_KeepEmpty(txt, boundaries, i, size, overlap, parts) ==
    IF i > Len(boundaries) THEN <<>>
    ELSE LET start == boundaries[i]
             end == IF i + 1 <= Len(boundaries) THEN boundaries[i + 1] ELSE Len(txt)
             story_text == strip(SubSeq(txt, start + 1, end))
         IN  StoryOrSplit(story_text, size, overlap, parts)
                 \o PatternChunks_KeepEmpty(txt, boundaries, i + 1, size, overlap, parts)

\* range(len(boundaries) - 1) for range(len(boundaries)): the last story is lost
RECURSIVE PatternChunks_DropLast(_, _, _, _, _, _)
PatternChunks_DropLast(txt, boundaries, i, size, overlap, parts) ==
    IF i > Len(boundaries) - 1 THEN <<>>
    ELSE LET story_text == strip(SubSeq(txt, boundaries[i] + 1, boundaries[i + 1]))
         IN  (IF story_text = <<>> THEN <<>>
              ELSE StoryOrSplit(story_text, size, overlap, parts))
                 \o PatternChunks_DropLast(txt, boundaries, i + 1, size, overlap, parts)

\* the loop over boundaries of the pattern branch (lines 135-158), from index i on
RECURSIVE PatternChunks(_, _, _, _, _, _)
PatternChunks(txt, boundaries, i, size, overlap, parts) ==
    IF i > Len(boundaries) THEN <<>>
    ELSE LET start == boundaries[i]
             end == IF i + 1 <= Len(boundaries) THEN boundaries[i + 1] ELSE Len(txt)
             story_text == strip(SubSeq(txt, start + 1, end))
         IN  (IF story_text = <<>> THEN <<>>
              ELSE StoryOrSplit(story_text, size, overlap, parts))
                 \o PatternChunks(txt, boundaries, i + 1, size, overlap, parts)

\* the non-empty trimmed pieces of text.split('\n\n') (lines 101-104)
BlankLineChunks(txt) == StripNonEmpty(split(txt, <<NL, NL>>))

\* the emptiness test of line 131 left out
WholeText_Unchecked(txt) == <<Story(strip(txt))>>

\* return [text] for return [text.strip()]
WholeText_Unstripped(txt) == IF strip(txt) # <<>> THEN <<Story(txt)>> ELSE <<>>

\* return [text.strip()] if text.strip() else [] (line 131)
WholeText(txt) == IF strip(txt) # <<>> THEN <<Story(strip(txt))>> ELSE <<>>

\* the pattern boundaries consulted before the blank-line split
chunk_text_PatternsFirst(self_size, self_overlap, patterns, txt, size_arg, overlap_arg, parts) ==
    LET size == OrElse(size_arg, self_size)
        overlap == OrElse(overlap_arg, self_overlap)
        chunks == BlankLineChunks(txt)
        bounds == find_story_boundaries(patterns, txt)
    IN  IF Len(bounds) > 1
            THEN [returned |-> PatternChunks(txt, bounds, 1, size, overlap, parts),
                  boundaries |-> bounds]
        ELSE IF BlankLineBranch(txt) /\ Len(chunks) > 1
            THEN [returned |-> FinalChunks(chunks, size, overlap, parts),
                  boundaries |-> bounds]
        ELSE [returned |-> WholeText(txt), boundaries |-> bounds]

\* chunk_text(text, chunk_size, chunk_overlap) on a chunker with fields
\* self_size, self_overlap, patterns: the list returned, and the local list
\* boundaries at the return (<<>> when line 127 was not reached)
chunk_text(self_size, self_overlap, patterns, txt, size_arg, overlap_arg, parts) ==
    LET size == OrElse(size_arg, self_size)
        overlap == OrElse(overlap_arg, self_overlap)
        chunks == BlankLineChunks(txt)
        bounds == find_story_boundaries(patterns, txt)
    IN  IF BlankLineBranch(txt) /\ Len(chunks) > 1
            THEN [returned |-> FinalChunks(chunks, size, overlap, parts),
                  boundaries |-> <<>>]
        ELSE IF Len(bounds) <= 1
            THEN [returned |-> WholeText(txt), boundaries |-> bounds]
        ELSE [returned |-> PatternChunks(txt, bounds, 1, size, overlap, parts),
              boundaries |-> bounds]

(***************************************************************************)
(* StoryChunk (domain/models.py).                                          *)
(***************************************************************************)
\* "if not self.content:" for "if not self.content or not self.content.strip():"
StoryChunk_NoStrip(id, content, metadata, embedding) ==
    IF content = <<>>
        THEN [error |-> "ValueError", message |-> "Chunk content cannot be empty"]
    ELSE IF id = <<>>
        THEN [error |-> "ValueError", message |-> "Chunk ID cannot be empty"]
    ELSE [id |-> id, content |-> content, metadata |-> metadata, embedding |-> embedding]

\* StoryChunk(id, content, metadata, embedding) with __post_init__:
\* the object, or the exception raised
StoryChunk(id, content, metadata, embedding) ==
    IF content = <<>> \/ strip(content) = <<>>
        THEN [error |-> "ValueError", message |-> "Chunk content cannot be empty"]
    ELSE IF id = <<>>
        THEN [error |-> "ValueError", message |-> "Chunk ID cannot be empty"]
    ELSE [id |-> id, content |-> content, metadata |-> metadata, embedding |-> embedding]

IsError(obj) == "error" \in DOMAIN obj

(***************************************************************************)
(* Inputs.                                                                 *)
(***************************************************************************)
Tokens == { <<NL>>, <<" ">>, <<"a">>, <<".">>,
            <<"S","t","o","r","y"," ","1",":">>,
            <<"1","."," ","A">> }

TokenSeqs(n) == UNION {[1..k -> Tokens] : k \in 0..n}

TextsUpTo(n) == {Flatten(ts) : ts \in TokenSeqs(n)}

CtorSizes == {1}

CtorOverlaps == {1}

\* the (chunk_size, chunk_overlap) arguments of a call
CallArgs == { <<None, None>>, <<Some(3), None>>, <<None, Some(0)>>, <<None, Some(2)>> }

\* the numbers of sub-chunks the external splitter may return for a story
PartsChoices == {1, 2}

Ids == {<<>>, <<"i","d">>}

\* Settings: the defaults of the fixed-window chunker (config/settings.py)
min_words == 1

max_words == 300

overlap_words == 50

(***************************************************************************)
(* The state machine: a chunker is constructed, chunk_text is called on a  *)
(* text, and StoryChunk objects are constructed.                           *)
(***************************************************************************)
\* no use case was called on a query
QueryUnused ==
    /\ query = <<>>
    /\ top_k = 0
    /\ entry = ""
    /\ query_embedding = <<>>
    /\ search_results = <<>>
    /\ response = <<>>
    /\ query_calls = <<>>

\* the application was not started
StartupUnused ==
    /\ data_dir_exists = FALSE
    /\ story_files = <<>>
    /\ attempted = <<>>
    /\ total_ingested = 0
    /\ startup_log = <<>>

\* no service was called on its own
DirectUnused ==
    /\ direct_call = ""
    /\ arg_texts = <<>>
    /\ arg_chunks = <<>>

\* LangChainTextChunker.__init__(chunk_size, chunk_overlap)
Init ==
    /\ chunk_size \in CtorSizes
    /\ chunk_overlap \in CtorOverlaps
    /\ story_patterns = StoryPatterns
    /\ text \in TextsUpTo(MaxTokens)
    /\ arg_size = None
    /\ arg_overlap = None
    /\ split_parts \in PartsChoices
    /\ pc = "ready"
    /\ story_boundaries = <<>>
    /\ result = <<>>
    /\ log = <<>>
    /\ arg_id = <<>>
    /\ story_chunks = <<>>
    /\ raised = ""
    /\ file_path = <<>>
    /\ document = <<>>
    /\ blank_parts = {}
    /\ embeddings = <<>>
    /\ collection = <<>>
    /\ calls = <<>>
    /\ uuids = 0
    /\ returned = <<>>
    /\ minWords = min_words
    /\ maxWords = max_words
    /\ overlapWords = overlap_words
    /\ words = <<>>
    /\ windowStart = 0
    /\ windowChunks = <<>>
    /\ QueryUnused
    /\ StartupUnused
    /\ DirectUnused

Fields == [chunk_size |-> chunk_size, chunk_overlap |-> chunk_overlap,
           story_patterns |-> story_patterns]

\* "self.chunk_size = chunk_size or self.chunk_size" for the local assignment
CallChunkText_StoresSize(size_arg, overlap_arg) ==
    /\ arg_size' = size_arg
    /\ arg_overlap' = overlap_arg
    /\ LET run == chunk_text(chunk_size, chunk_overlap, story_patterns,
                              text, size_arg, overlap_arg, split_parts)
       IN  /\ result' = run.returned
           /\ story_boundaries' = run.boundaries
    /\ chunk_size' = OrElse(size_arg, chunk_size)
    /\ UNCHANGED <<chunk_overlap, story_patterns>>
    /\ log' = Append(log, [chunk_size |-> size_arg, chunk_overlap |-> overlap_arg,
                           returned |-> result', before |-> Fields, after |-> Fields'])

\* the body of chunk_text(text, size_arg, overlap_arg): it assigns no field of self
CallChunkText(size_arg, overlap_arg) ==
    /\ arg_size' = size_arg
    /\ arg_overlap' = overlap_arg
    /\ LET run == chunk_text(chunk_size, chunk_overlap, story_patterns,
                              text, size_arg, overlap_arg, split_parts)
       IN  /\ result' = run.returned
           /\ story_boundaries' = run.boundaries
    /\ UNCHANGED <<chunk_size, chunk_overlap, story_patterns>>
    /\ log' = Append(log, [chunk_size |-> size_arg, chunk_overlap |-> overlap_arg,
                           returned |-> result', before |-> Fields, after |-> Fields'])

\* chunker.chunk_text(text, chunk_size, chunk_overlap), first call
ChunkText ==
    /\ pc = "ready"
    /\ \E args \in CallArgs : CallChunkText(args[1], args[2])
    /\ pc' = "done"
    /\ UNCHANGED <<text, split_parts, arg_id, story_chunks, raised>>
    /\ UNCHANGED <<ingest_vars, window_vars, service_vars>>

\* a further call of chunk_text on the same chunker and text
ChunkTextAgain ==
    /\ pc = "done"
    /\ Len(log) < MaxCalls
    /\ \E args \in CallArgs : CallChunkText(args[1], args[2])
    /\ pc' = "done"
    /\ UNCHANGED <<text, split_parts, arg_id, story_chunks, raised>>
    /\ UNCHANGED <<ingest_vars, window_vars, service_vars>>

\* StoryChunk(id=..., content=text, metadata={}) : one object from a raw text
NewStoryChunk ==
    /\ pc = "ready"
    /\ \E id \in Ids :
          LET obj == StoryChunk(id, text, <<>>, None)
          IN  /\ arg_id' = id
              /\ IF IsError(obj)
                    THEN /\ raised' = obj.error
                         /\ story_chunks' = <<>>
                    ELSE /\ raised' = ""
                         /\ story_chunks' = <<obj>>
    /\ pc' = "new"
    /\ UNCHANGED <<chunk_size, chunk_overlap, story_patterns, text, arg_size,
                   arg_overlap, split_parts, story_boundaries, result, log>>
    /\ UNCHANGED <<ingest_vars, window_vars, service_vars>>

\* the stories of the returned list that chunk_text produced itself
RECURSIVE Contents(_)
Contents(chunks) ==
    IF chunks = <<>> THEN <<>>
    ELSE (IF IsStory(Head(chunks)) THEN <<Head(chunks).content>> ELSE <<>>)
             \o Contents(Tail(chunks))

\* one StoryChunk per content, up to the first constructor call that raises
RECURSIVE BuildAll(_, _)
BuildAll(contents, id) ==
    IF contents = <<>> THEN [built |-> <<>>, raised |-> ""]
    ELSE LET obj == StoryChunk(id, Head(contents), <<>>, None)
         IN  IF IsError(obj) THEN [built |-> <<>>, raised |-> obj.error]
             ELSE LET rest == BuildAll(Tail(contents), id)
                  IN  [built |-> <<obj>> \o rest.built, raised |-> rest.raised]

\* StoryChunk(id=..., content=chunk, metadata={}) for every returned story
StoryChunksOfResult ==
    /\ pc = "done"
    /\ Len(log) = 1
    /\ LET out == BuildAll(Contents(result), <<"i","d">>)
       IN  /\ story_chunks' = out.built
           /\ raised' = out.raised
    /\ arg_id' = <<"i","d">>
    /\ pc' = "built"
    /\ UNCHANGED <<chunk_size, chunk_overlap, story_patterns, text, arg_size,
                   arg_overlap, split_parts, story_boundaries, result, log>>
    /\ UNCHANGED <<ingest_vars, window_vars, service_vars>>

Next == ChunkText \/ NewStoryChunk \/ StoryChunksOfResult

Spec == Init /\ [][Next]_vars

\* no call made yet on the chunker, no StoryChunk constructed
NothingCalled ==
    /\ arg_size = None
    /\ arg_overlap = None
    /\ pc = "ready"
    /\ story_boundaries = <<>>
    /\ result = <<>>
    /\ log = <<>>
    /\ arg_id = <<>>
    /\ story_chunks = <<>>
    /\ raised = ""

\* execute not called yet, the collection empty
NothingIngested ==
    /\ file_path = <<>>
    /\ document = <<>>
    /\ blank_parts = {}
    /\ embeddings = <<>>
    /\ collection = <<>>
    /\ calls = <<>>
    /\ uuids = 0
    /\ returned = <<>>

\* the fixed-window chunker under the defaults of Settings, not called
WindowUnused ==
    /\ minWords = min_words
    /\ maxWords = max_words
    /\ overlapWords = overlap_words
    /\ words = <<>>
    /\ windowStart = 0
    /\ windowChunks = <<>>

\* repeated calls of chunk_text on one chunker
InitCalls == Init /\ text \in TextsUpTo(MaxCallTokens)

NextCalls == ChunkText \/ ChunkTextAgain

SpecCalls == InitCalls /\ [][NextCalls]_vars

(***************************************************************************)
(* PDFDocumentLoader.load_pdf (infrastructure/document_loader.py).  A file *)
(* is its path (stem and suffix), whether it exists, whether reading it    *)
(* succeeds, and what a read gives: f.read() of a .txt file, the extracted *)
(* text of the pages of a .pdf file.                                       *)
(***************************************************************************)
\* str.lower()
lower(s) == [i \in 1..Len(s) |-> ToLower(s[i])]

\* sep.join(ss), by halves
RECURSIVE join(_, _)
join(ss, sep) ==
    IF ss = <<>> THEN <<>>
    ELSE IF Len(ss) = 1 THEN ss[1]
    ELSE LET half == Len(ss) \div 2
         IN  join(SubSeq(ss, 1, half), sep) \o sep \o join(SubSeq(ss, half + 1, Len(ss)), sep)

\* Python's "a or b" for an Optional[str] a: None and "" are falsy
OrStr(a, b) == IF a = <<>> THEN b ELSE a

StoryDocument(source, title, content) ==
    [source |-> source, title |-> title, author |-> None, content |-> content,
     chunks |-> <<>>]

\* load_pdf(file_path) when the file holds pages: the document, or the exception
load_pdf(file, pages) ==
    IF ~file.exists THEN [error |-> "FileNotFoundError"]
    ELSE LET file_ext == lower(file.suffix)
             title == file.stem
         IN  IF ~file.readable THEN [error |-> "ValueError"]
             ELSE IF file_ext = <<".", "t", "x", "t">>
                 THEN StoryDocument(file, title, pages[1])
             ELSE IF file_ext = <<".", "p", "d", "f">>
                 THEN StoryDocument(file, title, join(pages, <<NL>>))
             ELSE [error |-> "ValueError"]

(***************************************************************************)
(* OpenAIEmbeddingService.generate_embeddings_batch (embeddings.py).  A    *)
(* string of text_chunks is a chunk of the chunker together with what is   *)
(* known of its characters; the embedding the API computes for a string is *)
(* the one-element list holding that string.                               *)
(***************************************************************************)
\* the strings of the list chunk_text returned; blanks: the positions of the
\* sub-chunks of the splitter that are blank strings
TextChunks(chunks, blanks) ==
    [i \in 1..Len(chunks) |-> [chunk |-> chunks[i], blank |-> i \in blanks]]

\* the characters of a string as far as they are known: all of a story; of
\* a sub-chunk of the splitter only whether it is blank
chars(t) ==
    IF IsStory(t.chunk) THEN t.chunk.content
    ELSE IF t.blank THEN <<" ">> ELSE <<"#">>

\* text and text.strip()
NonBlankText(t) == chars(t) # <<>> /\ strip(chars(t)) # <<>>

\* client.embeddings.create(input=valid_texts).data
ApiResponse(valid_texts) ==
    [k \in 1..Len(valid_texts) |-> [index |-> k - 1, embedding |-> <<valid_texts[k]>>]]

\* "embeddings.append(embeddings_dict[0])" for embeddings_dict[valid_idx]
RECURSIVE AlignEmbeddings_FirstOnly(_, _, _, _)
AlignEmbeddings_FirstOnly(texts, i, valid_idx, embeddings_dict) ==
    IF i > Len(texts) THEN <<>>
    ELSE IF NonBlankText(texts[i])
        THEN <<embeddings_dict[0]>>
                 \o AlignEmbeddings_FirstOnly(texts, i + 1, valid_idx + 1, embeddings_dict)
    ELSE << <<>> >> \o AlignEmbeddings_FirstOnly(texts, i + 1, valid_idx, embeddings_dict)

\* the loop of lines 73-81, from text i on
RECURSIVE AlignEmbeddings(_, _, _, _)
AlignEmbeddings(texts, i, valid_idx, embeddings_dict) ==
    IF i > Len(texts) THEN <<>>
    ELSE IF NonBlankText(texts[i])
        THEN <<embeddings_dict[valid_idx]>>
                 \o AlignEmbeddings(texts, i + 1, valid_idx + 1, embeddings_dict)
    ELSE << <<>> >> \o AlignEmbeddings(texts, i + 1, valid_idx, embeddings_dict)

generate_embeddings_batch(texts) ==
    IF texts = <<>> THEN <<>>
    ELSE LET valid_texts == SelectSeq(texts, NonBlankText)
         IN  IF valid_texts = <<>> THEN <<>>
             ELSE LET data == ApiResponse(valid_texts)
                      embeddings_dict ==
                          [n \in {data[k].index : k \in 1..Len(data)} |->
                              (CHOOSE item \in {data[k] : k \in 1..Len(data)} :
                                  item.index = n).embedding]
                  IN  AlignEmbeddings(texts, 1, 0, embeddings_dict)

(***************************************************************************)
(* ChromaDBVectorStore.add_chunks (infrastructure/vector_store.py).  The   *)
(* collection is the sequence of the batches handed to collection.add, a   *)
(* batch being one row (id, embedding, document, metadata) per chunk.      *)
(***************************************************************************)
\* the comprehension of lines 80-83: str(v) for a value that is not a str, int,
\* float or bool; of the metadata execute builds that is author, which is None
Serialized(metadata) ==
    [k \in DOMAIN metadata |->
        IF k = "author" /\ metadata[k] = None THEN <<"N", "o", "n", "e">> ELSE metadata[k]]

\* what lines 70-83 append for one chunk
Row(chunk) ==
    [id |-> chunk.id, embedding |-> chunk.embedding, document |-> chunk.content,
     metadata |-> Serialized([chunk_id |-> chunk.id] @@ chunk.metadata)]

\* the chunks before the first one without embedding added before the raise
add_chunks_KeepsValidPrefix(chunks, coll) ==
    IF chunks = <<>> THEN [collection |-> coll, raised |-> ""]
    ELSE IF \E i \in 1..Len(chunks) : chunks[i].embedding = <<>>
        THEN LET bad == SetMin({i \in 1..Len(chunks) : chunks[i].embedding = <<>>})
             IN  [collection |-> IF bad = 1 THEN coll
                                 ELSE Append(coll, [i \in 1..(bad - 1) |-> Row(chunks[i])]),
                  raised |-> "ValueError"]
    ELSE [collection |-> Append(coll, [i \in 1..Len(chunks) |-> Row(chunks[i])]),
          raised |-> ""]

\* add_chunks(chunks) on a collection coll: the collection afterwards and
\* the exception raised
add_chunks(chunks, coll) ==
    IF chunks = <<>> THEN [collection |-> coll, raised |-> ""]
    ELSE IF \E i \in 1..Len(chunks) : chunks[i].embedding = <<>>
        THEN [collection |-> coll, raised |-> "ValueError"]
    ELSE [collection |-> Append(coll, [i \in 1..Len(chunks) |-> Row(chunks[i])]),
          raised |-> ""]

(***************************************************************************)
(* IngestStoriesUseCase.execute (application/use_cases.py), one action per *)
(* stretch of code between two awaits.                                     *)
(***************************************************************************)
Files ==
    { [stem |-> <<"s">>, suffix |-> <<".", "t", "x", "t">>, exists |-> TRUE, readable |-> TRUE],
      [stem |-> <<"s">>, suffix |-> <<".", "P", "D", "F">>, exists |-> TRUE, readable |-> TRUE],
      [stem |-> <<"s">>, suffix |-> <<".", "p", "d", "f">>, exists |-> TRUE, readable |-> FALSE],
      [stem |-> <<"s">>, suffix |-> <<".", "m", "d">>, exists |-> TRUE, readable |-> TRUE],
      [stem |-> <<"s">>, suffix |-> <<".", "t", "x", "t">>, exists |-> FALSE, readable |-> FALSE] }

\* str(uuid.uuid4()), the k-th identifier generated: non-empty and unlike the others
Uuid(k) == [j \in 1..k |-> "u"]

\* the sets of positions at which the splitter may have returned a blank string:
\* it drops no non-whitespace character of the story it is handed, so the
\* sub-chunks of one story are not all blank
BlankChoices(chunks) ==
    LET subs == {i \in 1..Len(chunks) : ~IsStory(chunks[i])}
    IN  {B \in SUBSET subs :
            \A i \in subs : \E j \in subs \ B : chunks[j].split_of = chunks[i].split_of}

\* StoryChunk(id=chunk_id, content=chunk_text, metadata=..., embedding=embedding)
StoryChunkOf(chunk_id, chunk_text_, metadata, embedding) ==
    LET obj == StoryChunk(chunk_id, chars(chunk_text_), metadata, embedding)
    IN  IF IsError(obj) THEN obj ELSE [obj EXCEPT !.content = chunk_text_]

\* the metadata of the i-th chunk (lines 70-76)
Metadata(doc, file, i, total) ==
    [source |-> doc.source, title |-> OrStr(doc.title, file.stem), author |-> doc.author,
     chunk_index |-> i, total_chunks |-> total]

\* "'chunk_index': i + 1" for "'chunk_index': i"
RECURSIVE BuildStoryChunks_OneBased(_, _, _, _, _, _)
BuildStoryChunks_OneBased(text_chunks, embs, i, doc, file, n) ==
    IF i >= Len(text_chunks) \/ i >= Len(embs)
        THEN [built |-> <<>>, raised |-> "", uuids |-> n]
    ELSE LET obj == StoryChunkOf(Uuid(n + 1), text_chunks[i + 1],
                                 Metadata(doc, file, i + 1, Len(text_chunks)), embs[i + 1])
         IN  IF IsError(obj) THEN [built |-> <<>>, raised |-> obj.error, uuids |-> n + 1]
             ELSE LET rest == BuildStoryChunks_OneBased(text_chunks, embs, i + 1, doc, file, n + 1)
                  IN  [built |-> <<obj>> \o rest.built, raised |-> rest.raised,
                       uuids |-> rest.uuids]

\* the loop of lines 64-79 from index i on, n uuids generated so far: the list
\* built, the exception a constructor raised, the uuids generated
RECURSIVE BuildStoryChunks(_, _, _, _, _, _)
BuildStoryChunks(text_chunks, embs, i, doc, file, n) ==
    IF i >= Len(text_chunks) \/ i >= Len(embs)
        THEN [built |-> <<>>, raised |-> "", uuids |-> n]
    ELSE LET obj == StoryChunkOf(Uuid(n + 1), text_chunks[i + 1],
                                 Metadata(doc, file, i, Len(text_chunks)), embs[i + 1])
         IN  IF IsError(obj) THEN [built |-> <<>>, raised |-> obj.error, uuids |-> n + 1]
             ELSE LET rest == BuildStoryChunks(text_chunks, embs, i + 1, doc, file, n + 1)
                  IN  [built |-> <<obj>> \o rest.built, raised |-> rest.raised,
                       uuids |-> rest.uuids]

\* execute(file_path) up to the return of load_pdf (line 49); a .txt file
\* holds text, a .pdf file one page whose extracted text is text
IngestLoad ==
    /\ pc = "ready"
    /\ \E file \in Files :
          LET doc == load_pdf(file, <<text>>)
          IN  /\ file_path' = file
              /\ IF IsError(doc)
                    THEN /\ raised' = doc.error
                         /\ pc' = "failed"
                         /\ document' = <<>>
                    ELSE /\ raised' = ""
                         /\ pc' = "loaded"
                         /\ document' = doc
    /\ calls' = Append(calls, "load_pdf")
    /\ UNCHANGED <<chunk_size, chunk_overlap, story_patterns, text, arg_size, arg_overlap,
                   split_parts, story_boundaries, result, log, arg_id, story_chunks>>
    /\ UNCHANGED <<blank_parts, embeddings, collection, uuids, returned>>
    /\ UNCHANGED <<window_vars, service_vars>>

\* the test "if not text_chunks" made after generate_embeddings_batch
IngestEmbed_NoChunkTest ==
    /\ pc = "loaded"
    /\ text = document.content
    /\ IF document.content = <<>>
          THEN /\ raised' = "ValueError"
               /\ pc' = "failed"
               /\ UNCHANGED <<chunk_size, chunk_overlap, story_patterns, arg_size,
                              arg_overlap, story_boundaries, result, log>>
               /\ UNCHANGED <<blank_parts, embeddings, calls>>
          ELSE /\ CallChunkText(None, None)
               /\ IF result' = <<>>
                     THEN /\ raised' = "ValueError"
                          /\ pc' = "failed"
                          /\ calls' = calls \o <<"chunk_text", "generate_embeddings_batch">>
                          /\ UNCHANGED <<blank_parts, embeddings>>
                     ELSE /\ calls' = calls \o <<"chunk_text", "generate_embeddings_batch">>
                          /\ \E blanks \in BlankChoices(result'), ok \in BOOLEAN :
                                /\ blank_parts' = blanks
                                /\ IF ok
                                      THEN /\ embeddings' = generate_embeddings_batch(
                                                                TextChunks(result', blanks))
                                           /\ pc' = "embedded"
                                           /\ raised' = ""
                                      ELSE /\ embeddings' = <<>>
                                           /\ pc' = "failed"
                                           /\ raised' = "APIError"
    /\ UNCHANGED <<text, split_parts, arg_id, story_chunks>>
    /\ UNCHANGED <<file_path, document, collection, uuids, returned>>
    /\ UNCHANGED <<window_vars, service_vars>>

\* lines 51-61: the content test, chunk_text(document.content), the test of
\* its result, and generate_embeddings_batch up to its return or its failure
IngestEmbed ==
    /\ pc = "loaded"
    /\ text = document.content
    /\ IF document.content = <<>>
          THEN /\ raised' = "ValueError"
               /\ pc' = "failed"
               /\ UNCHANGED <<chunk_size, chunk_overlap, story_patterns, arg_size,
                              arg_overlap, story_boundaries, result, log>>
               /\ UNCHANGED <<blank_parts, embeddings, calls>>
          ELSE /\ CallChunkText(None, None)
               /\ IF result' = <<>>
                     THEN /\ raised' = "ValueError"
                          /\ pc' = "failed"
                          /\ calls' = Append(calls, "chunk_text")
                          /\ UNCHANGED <<blank_parts, embeddings>>
                     ELSE /\ calls' = calls \o <<"chunk_text", "generate_embeddings_batch">>
                          /\ \E blanks \in BlankChoices(result'), ok \in BOOLEAN :
                                /\ blank_parts' = blanks
                                /\ IF ok
                                      THEN /\ embeddings' = generate_embeddings_batch(
                                                                TextChunks(result', blanks))
                                           /\ pc' = "embedded"
                                           /\ raised' = ""
                                      ELSE /\ embeddings' = <<>>
                                           /\ pc' = "failed"
                                           /\ raised' = "APIError"
    /\ UNCHANGED <<text, split_parts, arg_id, story_chunks>>
    /\ UNCHANGED <<file_path, document, collection, uuids, returned>>
    /\ UNCHANGED <<window_vars, service_vars>>

\* lines 63-89: the StoryChunk objects, add_chunks and the returned dictionary
IngestStore ==
    /\ pc = "embedded"
    /\ LET out == BuildStoryChunks(TextChunks(result, blank_parts), embeddings, 0,
                                   document, file_path, uuids)
           stored == add_chunks(out.built, collection)
       IN  /\ uuids' = out.uuids
           /\ IF out.raised # ""
                 THEN /\ raised' = out.raised
                      /\ pc' = "failed"
                      /\ UNCHANGED <<story_chunks, collection, calls, returned>>
                 ELSE /\ story_chunks' = out.built
                      /\ calls' = Append(calls, "add_chunks")
                      /\ IF stored.raised # ""
                            THEN /\ raised' = stored.raised
                                 /\ pc' = "failed"
                                 /\ UNCHANGED <<collection, returned>>
                            ELSE /\ collection' = stored.collection
                                 /\ returned' = [file_path |-> file_path,
                                                 title |-> document.title,
                                                 stories_ingested |-> Len(out.built),
                                                 chunks_created |-> Len(out.built)]
                                 /\ pc' = "returned"
                                 /\ raised' = ""
    /\ UNCHANGED <<chunk_size, chunk_overlap, story_patterns, text, arg_size, arg_overlap,
                   split_parts, story_boundaries, result, log, arg_id>>
    /\ UNCHANGED <<file_path, document, blank_parts, embeddings>>
    /\ UNCHANGED <<window_vars, service_vars>>

NextIngest == IngestLoad \/ IngestEmbed \/ IngestStore

SpecIngest == Init /\ [][NextIngest]_vars

(***************************************************************************)
(* The fixed-window chunker chunk(text, minWords, maxWords, overlapWords). *)
(* Its code is not among the source files, which hold only its defaults    *)
(* (config/settings.py, lines 14-16): it is modelled from section 4.2 and  *)
(* section 7 of the specification, one action per iteration of the loop.   *)
(***************************************************************************)
Min(a, b) == IF a <= b THEN a ELSE b

Max(a, b) == IF a >= b THEN a ELSE b

\* the whitespace-delimited words of s, in order: its maximal runs of
\* non-whitespace characters (any whitespace run separates, no empty token)
split_words(s) ==
    LET positions == [i \in 1..Len(s) |-> i]
        starts == SelectSeq(positions, LAMBDA i :
                      s[i] \notin Whitespace /\ (i = 1 \/ s[i - 1] \in Whitespace))
        stops == SelectSeq(positions, LAMBDA i :
                      s[i] \notin Whitespace /\ (i = Len(s) \/ s[i + 1] \in Whitespace))
    IN  [k \in 1..Len(starts) |-> SubSeq(s, starts[k], stops[k])]

\* the end (exclusive) of the window of maxW words that starts at start
WindowEnd(ws, start, maxW) == Min(start + maxW, Len(ws))

\* the forward-progress floor left out
NextStart_NoFloor(start, end, overlapW) == end - overlapW

\* one word fewer than overlapWords kept
NextStart_OffByOne(start, end, overlapW) == Max(end - overlapW + 1, start + 1)

\* the next window starts where this one ends
NextStart_NoOverlap(start, end, overlapW) == Max(end, start + 1)

\* the start of the next window
NextStart(start, end, overlapW) == Max(end - overlapW, start + 1)

\* the chunk of the window words[start:end]: its words rejoined with single spaces
WindowChunk(ws, start, end) == join(SubSeq(ws, start + 1, end), <<" ">>)

\* "fewer than maxWords words" for "at most maxWords words"
ChunkWords_FewerThanMax ==
    /\ pc = "ready"
    /\ words' = split_words(text)
    /\ windowStart' = 0
    /\ IF words' = <<>>
          THEN /\ windowChunks' = <<>>
               /\ pc' = "chunked"
          ELSE IF Len(words') < maxWords
          THEN /\ windowChunks' = <<strip(text)>>
               /\ pc' = "chunked"
          ELSE /\ windowChunks' = <<>>
               /\ pc' = "sliding"
    /\ UNCHANGED <<chunk_size, chunk_overlap, story_patterns, text, arg_size, arg_overlap,
                   split_parts, story_boundaries, result, log, arg_id, story_chunks, raised>>
    /\ UNCHANGED <<service_vars, ingest_vars, minWords, maxWords, overlapWords>>

\* the start of chunk: the words, the blank text, the text of at most maxWords words
ChunkWords ==
    /\ pc = "ready"
    /\ words' = split_words(text)
    /\ windowStart' = 0
    /\ IF words' = <<>>
          THEN /\ windowChunks' = <<>>
               /\ pc' = "chunked"
          ELSE IF Len(words') <= maxWords
          THEN /\ windowChunks' = <<strip(text)>>
               /\ pc' = "chunked"
          ELSE /\ windowChunks' = <<>>
               /\ pc' = "sliding"
    /\ UNCHANGED <<chunk_size, chunk_overlap, story_patterns, text, arg_size, arg_overlap,
                   split_parts, story_boundaries, result, log, arg_id, story_chunks, raised>>
    /\ UNCHANGED <<service_vars, ingest_vars, minWords, maxWords, overlapWords>>

\* one iteration of the loop: the window becomes a chunk if it has minWords
\* words or more; the loop stops when the window end reaches the word count,
\* and a result without any chunk is replaced by the whole text
SlideWindow ==
    /\ pc = "sliding"
    /\ LET end == WindowEnd(words, windowStart, maxWords)
           out == IF end - windowStart >= minWords
                      THEN Append(windowChunks, WindowChunk(words, windowStart, end))
                      ELSE windowChunks
       IN  IF end >= Len(words)
              THEN /\ windowChunks' = IF out = <<>> THEN <<strip(text)>> ELSE out
                   /\ pc' = "chunked"
                   /\ UNCHANGED windowStart
              ELSE /\ windowChunks' = out
                   /\ windowStart' = NextStart(windowStart, end, overlapWords)
                   /\ pc' = "sliding"
    /\ UNCHANGED <<chunk_size, chunk_overlap, story_patterns, text, arg_size, arg_overlap,
                   split_parts, story_boundaries, result, log, arg_id, story_chunks, raised>>
    /\ UNCHANGED <<service_vars, ingest_vars, minWords, maxWords, overlapWords, words>>

\* the texts and configurations of the fixed-window chunker
WindowTokens == { <<"a">>, <<"b", " ">>, <<NL>> }

WindowTexts == {Flatten(ts) : ts \in UNION {[1..k -> WindowTokens] : k \in 0..MaxWindowTokens}}

DigitChars == <<"0", "1", "2", "3", "4", "5", "6", "7", "8", "9">>

\* str(k)
RECURSIVE Decimal(_)
Decimal(k) ==
    IF k < 10 THEN <<DigitChars[k + 1]>>
    ELSE Decimal(k \div 10) \o <<DigitChars[(k % 10) + 1]>>

\* the scenario of the specification: max_words + 5 words (the numbers 0, 1,
\* ... as words, separated by a newline and a space) under the defaults
ScenarioWords == [k \in 1..(max_words + 5) |-> Decimal(k - 1)]

ScenarioText == join(ScenarioWords, <<NL, " ">>)

InitWindow ==
    /\ chunk_size \in CtorSizes
    /\ chunk_overlap \in CtorOverlaps
    /\ story_patterns = StoryPatterns
    /\ split_parts = 1
    /\ NothingCalled
    /\ NothingIngested
    /\ QueryUnused
    /\ StartupUnused
    /\ DirectUnused
    /\ words = <<>>
    /\ windowStart = 0
    /\ windowChunks = <<>>
    /\ \/ /\ text \in WindowTexts
          /\ maxWords \in 1..MaxWindow
          /\ overlapWords \in 0..MaxWindow
          /\ minWords \in 1..MaxWindow
       \/ /\ text = ScenarioText
          /\ maxWords = max_words
          /\ overlapWords = overlap_words
          /\ minWords = min_words

NextWindow == ChunkWords \/ SlideWindow

SpecWindow == InitWindow /\ [][NextWindow]_vars

\* the short texts only; the loop runs on as long as it has an iteration to make
InitWindowShort == InitWindow /\ text \in WindowTexts

SpecWindowFair == InitWindowShort /\ [][NextWindow]_vars /\ WF_vars(NextWindow)

(***************************************************************************)
(* _find_story_boundaries called on its own, on texts made of the lines    *)
(* its two tests tell apart: lines that end in a sentence terminator or    *)
(* not, lines of 99 and of 100 characters, signatures in either case.      *)
(***************************************************************************)
\* a word of 99 characters
LongWord == [i \in 1..(TitleMaxLen - 1) |-> "a"]

HeuristicTokens == { <<NL>>, <<" ">>, <<"a">>, <<".">>, <<"!">>, <<"?">> }

\* a blank line followed by a line of 99 or of 100 characters
LongLineTexts ==
    { <<"a", NL, NL>> \o LongWord \o rest : rest \in {<<>>, <<"a">>, <<" ", NL>>, <<".">>} }

SignatureTokens == { <<NL>>, <<"x">>,
                     <<"T", "a", "l", "e", " ", "1", ":">>,
                     <<"t", "a", "l", "e", " ", "1", ":">>,
                     <<"T", "A", "L", "E", " ", "1", "-">>,
                     <<"1", ".", " ", "T">>,
                     <<"1", ".", " ", "t">> }

TextsOver(tokens, n) == {Flatten(ts) : ts \in UNION {[1..k -> tokens] : k \in 0..n}}

LineTexts ==
    TextsOver(HeuristicTokens, MaxLineTokens) \cup TextsOver(SignatureTokens, MaxLineTokens)
        \cup LongLineTexts

InitLines ==
    /\ chunk_size \in CtorSizes
    /\ chunk_overlap \in CtorOverlaps
    /\ story_patterns = StoryPatterns
    /\ text \in LineTexts
    /\ split_parts = 1
    /\ NothingCalled
    /\ NothingIngested
    /\ QueryUnused
    /\ StartupUnused
    /\ DirectUnused
    /\ WindowUnused

\* boundaries = self._find_story_boundaries(text)
FindStoryBoundaries ==
    /\ pc = "ready"
    /\ story_boundaries' = find_story_boundaries(story_patterns, text)
    /\ pc' = "found"
    /\ UNCHANGED <<chunk_size, chunk_overlap, story_patterns, text, arg_size, arg_overlap,
                   split_parts, result, log, arg_id, story_chunks, raised>>
    /\ UNCHANGED <<ingest_vars, window_vars, service_vars>>

NextLines == FindStoryBoundaries

SpecLines == InitLines /\ [][NextLines]_vars

(***************************************************************************)
(* chunk_text on texts whose segments hold several lines: a double newline *)
(* and a newline followed by a signature line are single tokens.           *)
(***************************************************************************)
CascadeTokens == { <<NL, NL>>, <<NL>>, <<NL, "1", ".", " ", "A">>, <<"a">>,
                   <<"1", ".", " ", "A">> }

InitCascade ==
    /\ chunk_size \in CtorSizes
    /\ chunk_overlap \in CtorOverlaps
    /\ story_patterns = StoryPatterns
    /\ text \in TextsOver(CascadeTokens, MaxCascadeTokens)
    /\ split_parts \in PartsChoices
    /\ NothingCalled
    /\ NothingIngested
    /\ QueryUnused
    /\ StartupUnused
    /\ DirectUnused
    /\ WindowUnused

NextCascade == ChunkText

SpecCascade == InitCascade /\ [][NextCascade]_vars

(***************************************************************************)
(* SearchStoriesUseCase.execute and GenerateResponseUseCase.execute        *)
(* (application/use_cases.py), with generate_embedding, search_similar and *)
(* the LLM service.  The nearest-neighbour query of ChromaDB is external:  *)
(* it returns min(n_results, count) distinct rows of the collection,       *)
(* nearest first, in an order and with distances the model does not fix.   *)
(***************************************************************************)
\* generate_embedding(text): the embedding, or the exception raised
generate_embedding(t, api_ok) ==
    IF t = <<>> \/ strip(t) = <<>> THEN [error |-> "ValueError"]
    ELSE IF ~api_ok THEN [error |-> "APIError"]
    ELSE [embedding |-> <<t>>]

\* the rows of the collection, batch after batch
AllRows(coll) == Flatten(coll)

\* the distances of n hits, nearest first
Distances(n) ==
    {d \in [1..n -> 0..1] : \A i \in 1..(n - 1) : d[i] <= d[i + 1]}

\* what collection.query(query_embeddings=[e], n_results=k) may return:
\* the hits, each the index of a row and its distance
QueryHits(coll, k) ==
    LET n == Min(k, Len(AllRows(coll)))
    IN  {[i \in 1..n |-> [row |-> rows[i], distance |-> d[i]]] :
            rows \in {r \in [1..n -> 1..Len(AllRows(coll))] :
                         \A i, j \in 1..n : i # j => r[i] # r[j]},
            d \in Distances(n)}

\* the loop of search_similar from hit i on: the SearchResult objects and
\* the exception of a StoryChunk constructor, "" if none
RECURSIVE SearchResults(_, _, _)
SearchResults(coll, hits, i) ==
    IF i > Len(hits) THEN [results |-> <<>>, raised |-> ""]
    ELSE LET row == AllRows(coll)[hits[i].row]
             chunk == StoryChunk(row.id, row.document, row.metadata, None)
             rest == SearchResults(coll, hits, i + 1)
         IN  IF IsError(chunk) THEN [results |-> <<>>, raised |-> chunk.error]
             ELSE [results |-> <<[chunk |-> chunk, score |-> 1 - hits[i].distance,
                                  rank |-> i]>> \o rest.results,
                   raised |-> rest.raised]

\* search_similar(query_embedding, top_k) when the collection answers hits
search_similar(q_embedding, coll, hits) ==
    IF q_embedding = <<>> THEN [results |-> <<>>, raised |-> ""]
    ELSE SearchResults(coll, hits, 1)

\* the response of GenerateResponseUseCase.execute when nothing was found
NotFoundMessage == "I couldn't find any relevant stories to answer your query."

\* what the LLM may answer
LlmTexts == {"answer", NotFoundMessage}

\* GeneratedResponse(response, citations, query), the timestamp left out
GeneratedResponse(resp, citations, q) ==
    [response |-> resp, citations |-> citations, query |-> q]

\* a stored chunk with its embedding
StoredChunk(id, content, index) ==
    [id |-> id, content |-> content,
     metadata |-> [source |-> <<"s">>, title |-> <<"s">>, author |-> None,
                   chunk_index |-> index, total_chunks |-> 3],
     embedding |-> <<content>>]

\* the collections a query is made on: empty, one row, three rows in one
\* batch, two batches
QueryStores ==
    LET c1 == StoredChunk(Uuid(1), <<"a">>, 0)
        c2 == StoredChunk(Uuid(2), <<"b">>, 1)
        c3 == StoredChunk(Uuid(3), <<"a", " ", "b">>, 2)
    IN  { <<>>,
          add_chunks(<<c1>>, <<>>).collection,
          add_chunks(<<c1, c2, c3>>, <<>>).collection,
          add_chunks(<<c3>>, add_chunks(<<c1, c2>>, <<>>).collection).collection }

QueryTokens == { <<" ">>, <<"a">>, <<"b">> }

InitQuery ==
    /\ chunk_size \in CtorSizes
    /\ chunk_overlap \in CtorOverlaps
    /\ story_patterns = StoryPatterns
    /\ text = <<>>
    /\ split_parts = 1
    /\ NothingCalled
    /\ file_path = <<>>
    /\ document = <<>>
    /\ blank_parts = {}
    /\ embeddings = <<>>
    /\ collection \in QueryStores
    /\ calls = <<>>
    /\ uuids = 0
    /\ returned = <<>>
    /\ WindowUnused
    /\ StartupUnused
    /\ DirectUnused
    /\ query \in TextsOver(QueryTokens, MaxQueryTokens)
    /\ top_k \in 1..MaxTopK
    /\ entry = ""
    /\ query_embedding = <<>>
    /\ search_results = <<>>
    /\ response = <<>>
    /\ query_calls = <<>>

\* where SearchStoriesUseCase.execute returns to
AfterSearch(e) == IF e = "search" THEN "returned" ELSE "searched"

\* SearchStoriesUseCase.execute(query, top_k), called directly or from line
\* 165 of GenerateResponseUseCase.execute, up to the return of
\* generate_embedding
QueryEmbed ==
    /\ pc = "ready"
    /\ entry = ""
    /\ \E e \in {"search", "respond"} :
          /\ entry' = e
          /\ IF query = <<>> \/ strip(query) = <<>>
                THEN /\ search_results' = <<>>
                     /\ pc' = AfterSearch(e)
                     /\ UNCHANGED <<query_embedding, query_calls, raised>>
                ELSE /\ query_calls' = Append(query_calls,
                                              [name |-> "generate_embedding", text |-> query])
                     /\ \E api_ok \in BOOLEAN :
                           LET r == generate_embedding(query, api_ok)
                           IN  IF IsError(r)
                                   THEN /\ raised' = r.error
                                        /\ pc' = "failed"
                                        /\ UNCHANGED <<query_embedding, search_results>>
                                   ELSE /\ query_embedding' = r.embedding
                                        /\ pc' = "query_embedded"
                                        /\ UNCHANGED <<search_results, raised>>
    /\ UNCHANGED <<query, top_k, response>>
    /\ UNCHANGED <<chunk_size, chunk_overlap, story_patterns, text, arg_size, arg_overlap,
                   split_parts, story_boundaries, result, log, arg_id, story_chunks>>
    /\ UNCHANGED <<ingest_vars, window_vars, startup_vars, direct_vars>>

\* "results = await self.vector_store.search_similar(query_embedding,
\* top_k=top_k)" for "top_k=3", the default
QuerySearch_DefaultTopK ==
    /\ pc = "query_embedded"
    /\ \E hits \in QueryHits(collection, 3) :
          LET r == search_similar(query_embedding, collection, hits)
          IN  /\ query_calls' = Append(query_calls,
                                       [name |-> "search_similar",
                                        embedding |-> query_embedding,
                                        top_k |-> 3, returned |-> r.results])
              /\ IF r.raised # ""
                    THEN /\ raised' = r.raised
                         /\ pc' = "failed"
                         /\ UNCHANGED search_results
                    ELSE /\ search_results' = r.results
                         /\ pc' = AfterSearch(entry)
                         /\ UNCHANGED raised
    /\ UNCHANGED <<query, top_k, entry, query_embedding, response>>
    /\ UNCHANGED <<chunk_size, chunk_overlap, story_patterns, text, arg_size, arg_overlap,
                   split_parts, story_boundaries, result, log, arg_id, story_chunks>>
    /\ UNCHANGED <<ingest_vars, window_vars, startup_vars, direct_vars>>

\* lines 127-130: search_similar(query_embedding, top_k=top_k) and the return
QuerySearch ==
    /\ pc = "query_embedded"
    /\ \E hits \in QueryHits(collection, top_k) :
          LET r == search_similar(query_embedding, collection, hits)
          IN  /\ query_calls' = Append(query_calls,
                                       [name |-> "search_similar",
                                        embedding |-> query_embedding,
                                        top_k |-> top_k, returned |-> r.results])
              /\ IF r.raised # ""
                    THEN /\ raised' = r.raised
                         /\ pc' = "failed"
                         /\ UNCHANGED search_results
                    ELSE /\ search_results' = r.results
                         /\ pc' = AfterSearch(entry)
                         /\ UNCHANGED raised
    /\ UNCHANGED <<query, top_k, entry, query_embedding, response>>
    /\ UNCHANGED <<chunk_size, chunk_overlap, story_patterns, text, arg_size, arg_overlap,
                   split_parts, story_boundaries, result, log, arg_id, story_chunks>>
    /\ UNCHANGED <<ingest_vars, window_vars, startup_vars, direct_vars>>

\* "citations=[search_results[0].chunk]" for "citations=context_chunks"
Respond_FirstCitation ==
    /\ pc = "searched"
    /\ IF search_results = <<>>
          THEN /\ response' = GeneratedResponse(NotFoundMessage, <<>>, query)
               /\ pc' = "returned"
               /\ UNCHANGED <<query_calls, raised>>
          ELSE LET context_chunks == [i \in 1..Len(search_results) |-> search_results[i].chunk]
               IN  /\ query_calls' = Append(query_calls,
                                            [name |-> "generate_response", query |-> query,
                                             context_chunks |-> context_chunks])
                   /\ \/ /\ \E response_text \in LlmTexts :
                               response' = GeneratedResponse(response_text,
                                                             <<context_chunks[1]>>, query)
                         /\ pc' = "returned"
                         /\ UNCHANGED raised
                      \/ /\ raised' = "APIError"
                         /\ pc' = "failed"
                         /\ UNCHANGED response
    /\ UNCHANGED <<query, top_k, entry, query_embedding, search_results>>
    /\ UNCHANGED <<chunk_size, chunk_overlap, story_patterns, text, arg_size, arg_overlap,
                   split_parts, story_boundaries, result, log, arg_id, story_chunks>>
    /\ UNCHANGED <<ingest_vars, window_vars, startup_vars, direct_vars>>

\* GenerateResponseUseCase.execute after the search (lines 167-189)
Respond ==
    /\ pc = "searched"
    /\ IF search_results = <<>>
          THEN /\ response' = GeneratedResponse(NotFoundMessage, <<>>, query)
               /\ pc' = "returned"
               /\ UNCHANGED <<query_calls, raised>>
          ELSE LET context_chunks == [i \in 1..Len(search_results) |-> search_results[i].chunk]
               IN  /\ query_calls' = Append(query_calls,
                                            [name |-> "generate_response", query |-> query,
                                             context_chunks |-> context_chunks])
                   /\ \/ /\ \E response_text \in LlmTexts :
                               response' = GeneratedResponse(response_text,
                                                             context_chunks, query)
                         /\ pc' = "returned"
                         /\ UNCHANGED raised
                      \/ /\ raised' = "APIError"
                         /\ pc' = "failed"
                         /\ UNCHANGED response
    /\ UNCHANGED <<query, top_k, entry, query_embedding, search_results>>
    /\ UNCHANGED <<chunk_size, chunk_overlap, story_patterns, text, arg_size, arg_overlap,
                   split_parts, story_boundaries, result, log, arg_id, story_chunks>>
    /\ UNCHANGED <<ingest_vars, window_vars, startup_vars, direct_vars>>

NextQuery == QueryEmbed \/ QuerySearch \/ Respond

SpecQuery == InitQuery /\ [][NextQuery]_vars

(***************************************************************************)
(* add_chunks and generate_embeddings_batch called on their own, on any    *)
(* list of chunks and any list of texts.  None and the empty list are both *)
(* <<>>: the code tests them with "not".                                   *)
(***************************************************************************)
\* the sequences of length at most n over a set
SeqsUpTo(S, n) == UNION {[1..k -> S] : k \in 0..n}

\* a text as generate_embeddings_batch reads it
DirectText(s) == [chunk |-> Story(s), blank |-> FALSE]

BatchStrings == { <<>>, <<" ">>, <<"a">>, <<"b">> }

\* chunks with an embedding (metadata with a None value, metadata of
\* strings and integers only) and without
DirectChunks ==
    { StoredChunk(Uuid(1), <<"a">>, 0),
      [id |-> Uuid(2), content |-> <<"b">>,
       metadata |-> [source |-> <<"s">>, chunk_index |-> 1],
       embedding |-> << <<"b">> >>],
      [id |-> Uuid(3), content |-> <<"a">>,
       metadata |-> [source |-> <<"s">>, chunk_index |-> 2],
       embedding |-> <<>>] }

InitDirect ==
    /\ chunk_size \in CtorSizes
    /\ chunk_overlap \in CtorOverlaps
    /\ story_patterns = StoryPatterns
    /\ text = <<>>
    /\ split_parts = 1
    /\ NothingCalled
    /\ file_path = <<>>
    /\ document = <<>>
    /\ blank_parts = {}
    /\ embeddings = <<>>
    /\ calls = <<>>
    /\ uuids = 0
    /\ returned = <<>>
    /\ WindowUnused
    /\ QueryUnused
    /\ StartupUnused
    /\ \/ /\ direct_call = "add_chunks"
          /\ arg_chunks \in SeqsUpTo(DirectChunks, MaxBatch)
          /\ arg_texts = <<>>
          /\ collection \in QueryStores
       \/ /\ direct_call = "generate_embeddings_batch"
          /\ arg_texts \in SeqsUpTo({DirectText(s) : s \in BatchStrings}, MaxBatch)
          /\ arg_chunks = <<>>
          /\ collection = <<>>

\* await vector_store.add_chunks(arg_chunks)
AddChunks ==
    /\ pc = "ready"
    /\ direct_call = "add_chunks"
    /\ LET stored == add_chunks(arg_chunks, collection)
       IN  /\ collection' = stored.collection
           /\ raised' = stored.raised
           /\ pc' = IF stored.raised # "" THEN "failed" ELSE "returned"
    /\ UNCHANGED <<chunk_size, chunk_overlap, story_patterns, text, arg_size, arg_overlap,
                   split_parts, story_boundaries, result, log, arg_id, story_chunks>>
    /\ UNCHANGED <<file_path, document, blank_parts, embeddings, calls, uuids, returned>>
    /\ UNCHANGED <<window_vars, service_vars>>

\* await embedding_service.generate_embeddings_batch(arg_texts); the API is
\* called only when a text is not blank, and may fail
GenerateEmbeddingsBatch ==
    /\ pc = "ready"
    /\ direct_call = "generate_embeddings_batch"
    /\ \/ /\ embeddings' = generate_embeddings_batch(arg_texts)
          /\ pc' = "returned"
          /\ UNCHANGED raised
       \/ /\ SelectSeq(arg_texts, NonBlankText) # <<>>
          /\ raised' = "APIError"
          /\ pc' = "failed"
          /\ UNCHANGED embeddings
    /\ UNCHANGED <<chunk_size, chunk_overlap, story_patterns, text, arg_size, arg_overlap,
                   split_parts, story_boundaries, result, log, arg_id, story_chunks>>
    /\ UNCHANGED <<file_path, document, blank_parts, collection, calls, uuids, returned>>
    /\ UNCHANGED <<window_vars, service_vars>>

NextDirect == AddChunks \/ GenerateEmbeddingsBatch

SpecDirect == InitDirect /\ [][NextDirect]_vars

(***************************************************************************)
(* startup_event (presentation/api.py).  One action per turn of the loop   *)
(* over story_files; a turn runs IngestStoriesUseCase.execute to its end.  *)
(***************************************************************************)
\* execute(file_path) as one step, on a file that holds content, when the
\* splitter returns parts sub-chunks of which those at blanks are blank,
\* with the embedding API answering or not: the dictionary returned, the
\* exception raised, the collection and the number of uuids afterwards
execute(file, content, parts, blanks, api_ok, coll, n) ==
    LET doc == load_pdf(file, <<content>>)
        failed(e) == [returned |-> <<>>, raised |-> e, collection |-> coll, uuids |-> n]
    IN  IF IsError(doc) THEN failed(doc.error)
        ELSE IF doc.content = <<>> THEN failed("ValueError")
        ELSE LET text_chunks == chunk_text(chunk_size, chunk_overlap, story_patterns,
                                           doc.content, None, None, parts).returned
             IN  IF text_chunks = <<>> THEN failed("ValueError")
                 ELSE IF ~api_ok THEN failed("APIError")
                 ELSE LET texts == TextChunks(text_chunks, blanks \cap (1..Len(text_chunks)))
                          out == BuildStoryChunks(texts, generate_embeddings_batch(texts), 0,
                                                  doc, file, n)
                          stored == add_chunks(out.built, coll)
                      IN  IF out.raised # ""
                              THEN [failed(out.raised) EXCEPT !.uuids = out.uuids]
                          ELSE IF stored.raised # ""
                              THEN [failed(stored.raised) EXCEPT !.uuids = out.uuids]
                          ELSE [returned |-> [file_path |-> file, title |-> doc.title,
                                              stories_ingested |-> Len(out.built),
                                              chunks_created |-> Len(out.built)],
                                raised |-> "", collection |-> stored.collection,
                                uuids |-> out.uuids]

\* the files the four globs can find: existing files with suffix .pdf, .PDF,
\* .txt or .TXT, each with what a read of it gives
StartupContents == { <<>>, <<"a">>, <<"a", NL, NL, "b">>, <<"a", "a", "a", "a">> }

StartupFiles ==
    {[file |-> f, content |-> c] :
        f \in {g \in Files : g.exists /\ lower(g.suffix) \in {<<".", "p", "d", "f">>,
                                                              <<".", "t", "x", "t">>}},
        c \in StartupContents}

InitStartup ==
    /\ chunk_size \in CtorSizes
    /\ chunk_overlap \in CtorOverlaps
    /\ story_patterns = StoryPatterns
    /\ text = <<>>
    /\ split_parts = 1
    /\ NothingCalled
    /\ NothingIngested
    /\ WindowUnused
    /\ QueryUnused
    /\ DirectUnused
    /\ data_dir_exists \in BOOLEAN
    /\ story_files \in (IF data_dir_exists THEN SeqsUpTo(StartupFiles, MaxFiles) ELSE {<<>>})
    /\ attempted = <<>>
    /\ total_ingested = 0
    /\ startup_log = <<>>

\* lines 70-88: up to the loop
StartupBegin ==
    /\ pc = "ready"
    /\ IF ~data_dir_exists
          THEN /\ startup_log' = Append(startup_log, [level |-> "warning", msg |-> "no data dir"])
               /\ pc' = "started"
          ELSE IF story_files = <<>>
              THEN /\ startup_log' = Append(startup_log, [level |-> "info", msg |-> "no files"])
                   /\ pc' = "started"
          ELSE /\ startup_log' = Append(startup_log,
                                        [level |-> "info", msg |-> "found",
                                         files |-> Len(story_files)])
               /\ pc' = "preloading"
    /\ UNCHANGED <<data_dir_exists, story_files, attempted, total_ingested>>
    /\ UNCHANGED <<chunk_size, chunk_overlap, story_patterns, text, arg_size, arg_overlap,
                   split_parts, story_boundaries, result, log, arg_id, story_chunks, raised>>
    /\ UNCHANGED <<ingest_vars, window_vars, query_vars, direct_vars>>

\* the loop without its try: an exception of execute leaves startup_event
PreloadFile_NoTry ==
    /\ pc = "preloading"
    /\ Len(attempted) < Len(story_files)
    /\ \E f \in {story_files[Len(attempted) + 1]} :
           \E api_ok \in BOOLEAN :
              \E out \in {execute(f.file, f.content, split_parts, {}, api_ok, collection, uuids)} :
                  /\ attempted' = Append(attempted, f)
                  /\ uuids' = out.uuids
                  /\ collection' = out.collection
                  /\ IF out.raised = ""
                        THEN /\ total_ingested' = total_ingested + out.returned.stories_ingested
                             /\ startup_log' =
                                    Append(startup_log,
                                           [level |-> "info", msg |-> "preloaded",
                                            chunks |-> out.returned.stories_ingested])
                             /\ UNCHANGED <<pc, raised>>
                        ELSE /\ raised' = out.raised
                             /\ pc' = "failed"
                             /\ UNCHANGED <<total_ingested, startup_log>>
    /\ UNCHANGED <<data_dir_exists, story_files>>
    /\ UNCHANGED <<chunk_size, chunk_overlap, story_patterns, text, arg_size, arg_overlap,
                   split_parts, story_boundaries, result, log, arg_id, story_chunks>>
    /\ UNCHANGED <<file_path, document, blank_parts, embeddings, calls, returned>>
    /\ UNCHANGED <<window_vars, query_vars, direct_vars>>

\* one turn of the loop of lines 94-103: f is the file of the turn, out
\* what execute makes of it
PreloadFile ==
    /\ pc = "preloading"
    /\ Len(attempted) < Len(story_files)
    /\ \E f \in {story_files[Len(attempted) + 1]} :
           \E api_ok \in BOOLEAN :
              \E out \in {execute(f.file, f.content, split_parts, {}, api_ok, collection, uuids)} :
                  /\ attempted' = Append(attempted, f)
                  /\ uuids' = out.uuids
                  /\ collection' = out.collection
                  /\ IF out.raised = ""
                        THEN /\ total_ingested' = total_ingested + out.returned.stories_ingested
                             /\ startup_log' =
                                    Append(startup_log,
                                           [level |-> "info", msg |-> "preloaded",
                                            chunks |-> out.returned.stories_ingested])
                        ELSE /\ startup_log' = Append(startup_log,
                                                      [level |-> "error", msg |-> out.raised])
                             /\ UNCHANGED total_ingested
    /\ UNCHANGED <<data_dir_exists, story_files>>
    /\ UNCHANGED <<chunk_size, chunk_overlap, story_patterns, text, arg_size, arg_overlap,
                   split_parts, story_boundaries, result, log, arg_id, story_chunks, pc, raised>>
    /\ UNCHANGED <<file_path, document, blank_parts, embeddings, calls, returned>>
    /\ UNCHANGED <<window_vars, query_vars, direct_vars>>

\* line 105: the report, after the last file
StartupComplete ==
    /\ pc = "preloading"
    /\ Len(attempted) = Len(story_files)
    /\ startup_log' = Append(startup_log,
                             [level |-> "info", msg |-> "complete",
                              total |-> total_ingested, files |-> Len(story_files)])
    /\ pc' = "started"
    /\ UNCHANGED <<data_dir_exists, story_files, attempted, total_ingested>>
    /\ UNCHANGED <<chunk_size, chunk_overlap, story_patterns, text, arg_size, arg_overlap,
                   split_parts, story_boundaries, result, log, arg_id, story_chunks, raised>>
    /\ UNCHANGED <<ingest_vars, window_vars, query_vars, direct_vars>>

NextStartup == StartupBegin \/ PreloadFile \/ StartupComplete

SpecStartup == InitStartup /\ [][NextStartup]_vars

\* what a turn of the loop does to attempted, whatever execute does: a
\* step of PreloadFile is a step of LoopTurn, and both are enabled exactly
\* when the loop has a file left
LoopTurn ==
    /\ pc = "preloading"
    /\ Len(attempted) < Len(story_files)
    /\ attempted' = Append(attempted, story_files[Len(attempted) + 1])

\* the event loop runs startup_event on: awaited calls come back
SpecStartupFair ==
    InitStartup /\ [][NextStartup]_vars
        /\ WF_vars(StartupBegin) /\ WF_attempted(LoopTurn) /\ WF_vars(StartupComplete)

(***************************************************************************)
(* Notions the properties are stated in.                                   *)
(***************************************************************************)
\* the text is empty or consists of whitespace only
Blank(s) == \A i \in 1..Len(s) : s[i] \in Whitespace

\* s has no leading and no trailing whitespace
Trimmed(s) == s = <<>> \/ (s[1] \notin Whitespace /\ s[Len(s)] \notin Whitespace)

\* s without its whitespace characters
NonWhitespace(s) == SelectSeq(s, LAMBDA c : c \notin Whitespace)

\* the lines of the text
Lines(s) == split(s, <<NL>>)

\* a line that one of the signatures of story_patterns matches, once trimmed
IsSignatureLine(line) ==
    \E p \in 1..Len(StoryPatterns) : re_match(StoryPatterns[p], strip(line), TRUE)

\* the segments of the split on the double newline that are not blank, trimmed
Segments(s) ==
    LET pieces == SelectSeq(split(s, <<NL, NL>>), LAMBDA c : ~Blank(c))
    IN  [i \in 1..Len(pieces) |-> strip(pieces[i])]

\* the chunk size and overlap in force for the call (lines 94-95)
EffectiveSize == OrElse(arg_size, chunk_size)

EffectiveOverlap == OrElse(arg_overlap, chunk_overlap)

Threshold == 3 * EffectiveSize

\* no chunk of the returned list comes from the oversized-segment splitter
NoSplitterUsed == \A i \in 1..Len(result) : IsStory(result[i])

\* the returned list is exactly these stories, unsplit
ReturnsStories(stories) ==
    result = [i \in 1..Len(stories) |-> Story(stories[i])]

Returned == pc = "done"

(***************************************************************************)
(* Properties.                                                             *)
(***************************************************************************)
\* C1: for a text that is empty or whitespace-only, chunk_text returns the
\* empty list and raises nothing, in the blank-line branch and in the
\* pattern branch alike.
C1_BlankTextNoChunks ==
    (Returned /\ Blank(text)) => (result = <<>> /\ raised = "")

C1_Witness ==
    /\ Returned /\ Blank(text) /\ contains(text, <<NL, NL>>)
    /\ result = <<>>

\* C2: every chunk that chunk_text returns without the oversized-segment
\* splitter is non-empty and equals its own trim.
C2_ChunksTrimmedNonEmpty ==
    Returned => \A i \in 1..Len(result) :
                    IsStory(result[i]) =>
                        (result[i].content # <<>> /\ Trimmed(result[i].content))

C2_Witness ==
    /\ Returned /\ NoSplitterUsed /\ Len(result) >= 2
    /\ text[1] \in Whitespace

\* C3: a text that is not blank, has no line that is empty after trimming
\* and no line matching a boundary signature is returned as exactly one
\* chunk, the trimmed text, whatever its length.
C3_Applies ==
    /\ ~Blank(text)
    /\ \A i \in 1..Len(Lines(text)) :
          ~Blank(Lines(text)[i]) /\ ~IsSignatureLine(Lines(text)[i])

C3_PlainTextOneChunk ==
    (Returned /\ C3_Applies) => ReturnsStories(<<strip(text)>>)

C3_Witness ==
    /\ Returned /\ C3_Applies
    /\ Len(Lines(text)) >= 2 /\ Len(strip(text)) > Threshold
    /\ Len(result) = 1

\* C4 as stated: N >= 1 non-empty segments of the split on the double
\* newline, each at most 3 x chunk_size long, give exactly N chunks, the
\* trimmed segments in order.
C4_Original ==
    (/\ Returned
     /\ Len(Segments(text)) >= 1
     /\ \A i \in 1..Len(Segments(text)) : Len(Segments(text)[i]) <= Threshold)
        => ReturnsStories(Segments(text))

\* C4: N >= 2 non-empty segments of the split on the double newline, each
\* at most 3 x chunk_size long, give exactly N chunks, the i-th chunk being
\* the trimmed i-th segment.
C4_SegmentsInOrder ==
    (/\ Returned
     /\ Len(Segments(text)) >= 2
     /\ \A i \in 1..Len(Segments(text)) : Len(Segments(text)[i]) <= Threshold)
        => ReturnsStories(Segments(text))

C4_Witness ==
    /\ Returned /\ Len(Segments(text)) >= 2 /\ NoSplitterUsed
    /\ Segments(text)[1] # Segments(text)[2]
    /\ Len(result) = Len(Segments(text))

\* C5: when no segment is oversized, the returned chunks, concatenated in
\* order, hold exactly the non-whitespace characters of the text, in order.
C5_Coverage ==
    (Returned /\ NoSplitterUsed)
        => NonWhitespace(Flatten(Contents(result))) = NonWhitespace(text)

C5_Witness ==
    /\ Returned /\ NoSplitterUsed /\ Len(result) >= 2
    /\ ~contains(text, <<NL, NL>>)
    /\ Len(NonWhitespace(text)) < Len(text)

\* C6: two calls of chunk_text with the same text and the same chunk_size
\* and chunk_overlap return the same list whatever was called in between,
\* and no call changes a field of the chunker.
C6_Deterministic ==
    /\ \A i \in 1..Len(log) : \A j \in 1..Len(log) :
          (log[i].chunk_size = log[j].chunk_size
              /\ log[i].chunk_overlap = log[j].chunk_overlap)
                  => log[i].returned = log[j].returned
    /\ \A i \in 1..Len(log) : log[i].after = log[i].before /\ log[i].after = Fields

C6_Witness ==
    /\ Len(log) = 3
    /\ log[1].chunk_size = log[3].chunk_size
    /\ log[1].chunk_overlap = log[3].chunk_overlap
    /\ log[2].returned # log[1].returned
    /\ log[3].returned = log[1].returned

\* what the oversize rule makes of a list of trimmed stories
SplitOversized(stories) ==
    Flatten([i \in 1..Len(stories) |->
                IF Len(stories[i]) > Threshold
                    THEN split_text(stories[i], EffectiveSize, EffectiveOverlap,
                                    split_parts)
                    ELSE <<Story(stories[i])>>])

\* the text between boundary k and the next boundary (or the end), trimmed
Slice(k) ==
    strip(SubSeq(text, story_boundaries[k] + 1,
                 IF k < Len(story_boundaries) THEN story_boundaries[k + 1]
                                              ELSE Len(text)))

\* the non-empty trimmed slices, in order
PatternStories ==
    SelectSeq([k \in 1..Len(story_boundaries) |-> Slice(k)], LAMBDA c : c # <<>>)

\* chunk_text went past the blank-line split and found several boundaries
PatternPath == Len(Segments(text)) < 2 /\ Len(story_boundaries) > 1

\* C7: in the blank-line path and in the pattern path, a trimmed segment
\* longer than 3 x chunk_size is replaced, at its own position, by the
\* sub-chunks of the splitter called with (chunk_size, chunk_overlap); a
\* segment of at most 3 x chunk_size is returned unchanged.
C7_OversizedFallback ==
    Returned =>
        /\ Len(Segments(text)) >= 2 => result = SplitOversized(Segments(text))
        /\ PatternPath => result = SplitOversized(PatternStories)

C7_Witness ==
    /\ Returned /\ PatternPath /\ Len(result) >= 2
    /\ IsStory(result[1])
    /\ ~IsStory(result[2]) /\ result[2].split_of = Slice(2) /\ result[2].part = 1

\* the number of lines of the text that match a story signature
SignatureLines == {i \in 1..Len(Lines(text)) : IsSignatureLine(Lines(text)[i])}

NoSliceOversized == \A k \in 1..Len(story_boundaries) : Len(Slice(k)) <= Threshold

\* C8 as stated: with two or more signature lines there are at least two
\* chunks, and in the pattern path without oversized segments one chunk per
\* boundary position, chunk k being the trimmed text from boundary k to the
\* next.
C8_Original ==
    (Returned /\ Cardinality(SignatureLines) >= 2) =>
        /\ Len(result) >= 2
        /\ (PatternPath /\ NoSliceOversized) =>
              result = [k \in 1..Len(story_boundaries) |-> Story(Slice(k))]

\* C8: with two or more signature lines there are at least two chunks, and
\* in the pattern path without oversized segments one chunk per boundary
\* position whose trimmed slice is not empty, in order, each chunk being
\* that trimmed slice.
C8_SignatureLinesSplit ==
    (Returned /\ Cardinality(SignatureLines) >= 2) =>
        /\ Len(result) >= 2
        /\ (PatternPath /\ NoSliceOversized) => ReturnsStories(PatternStories)

C8_Witness ==
    /\ Returned /\ Cardinality(SignatureLines) >= 2
    /\ PatternPath /\ NoSliceOversized
    /\ Len(result) = 2 /\ Len(story_boundaries) = 3

\* position 0 is the first boundary and no later boundary is 0
ZeroOnce ==
    (Returned /\ story_boundaries # <<>>) =>
        /\ story_boundaries[1] = 0
        /\ \A i \in 2..Len(story_boundaries) : story_boundaries[i] > 0

\* the first line matches a signature, and no later line is a boundary
OnlyFirstLineMatches ==
    /\ IsSignatureLine(Lines(text)[1])
    /\ \A i \in 2..Len(Lines(text)) :
          ~IsSignatureLine(Lines(text)[i]) /\ ~BlankLineHeuristic(Lines(text), i)

\* C9 as stated: position 0 is in the boundaries once, and a text whose
\* only signature match is on its first line yields a single chunk.
C9_Original ==
    /\ ZeroOnce
    /\ (Returned /\ OnlyFirstLineMatches) => Len(result) = 1

\* C9: position 0 is the first boundary and appears once; a text whose
\* only boundary match is on its first line, and which the split on the
\* double newline does not cut into two or more non-empty segments, yields
\* a single chunk, the trimmed text.
C9_FirstLineNoDuplicate ==
    /\ ZeroOnce
    /\ (Returned /\ OnlyFirstLineMatches /\ Len(Segments(text)) < 2)
          => (story_boundaries = <<0>> /\ ReturnsStories(<<strip(text)>>))

C9_Witness ==
    /\ Returned /\ OnlyFirstLineMatches /\ Len(Segments(text)) < 2
    /\ Len(Lines(text)) >= 2
    /\ story_boundaries = <<0>> /\ Len(result) = 1

IngestedTexts == TextChunks(result, blank_parts)

\* the number of calls of a service that execute made
CallCount(name) == Len(SelectSeq(calls, LAMBDA c : c = name))

\* C11: when execute returns (no exception) on a document that chunk_text
\* split into n chunks, add_chunks was called once and the collection holds
\* one batch of exactly n rows in chunker order: row i has the i-th chunk
\* string as its document, the i-th embedding (the one computed for that
\* string), chunk_index = i (0-based) and total_chunks = n, and the returned
\* stories_ingested is n.
C11_IngestStoresAllChunks ==
    pc = "returned" =>
        LET n == Len(result)
        IN  /\ CallCount("add_chunks") = 1
            /\ Len(collection) = 1
            /\ Len(collection[1]) = n
            /\ \A i \in 1..n :
                  /\ collection[1][i].document = IngestedTexts[i]
                  /\ collection[1][i].embedding = embeddings[i]
                  /\ collection[1][i].embedding = <<IngestedTexts[i]>>
                  /\ collection[1][i].metadata.chunk_index = i - 1
                  /\ collection[1][i].metadata.total_chunks = n
            /\ returned.stories_ingested = n

\* execute returned after storing three chunks or more, one of them a
\* sub-chunk of the splitter
C11_Witness ==
    /\ pc = "returned"
    /\ Len(collection) = 1
    /\ Len(collection[1]) >= 3
    /\ ~NoSplitterUsed

\* the fixed-window chunker returned
Chunked == pc = "chunked"

\* C12 as stated: a text of at most maxWords words, whatever its word count,
\* gives exactly one chunk, which holds all the words of the text.
C12_Original ==
    (Chunked /\ Len(split_words(text)) <= maxWords) =>
        /\ Len(windowChunks) = 1
        /\ split_words(windowChunks[1]) = split_words(text)

\* C12: a text that is not blank and has at most maxWords words (exactly
\* maxWords included) gives exactly one chunk; the chunk is the trimmed text,
\* so it holds all the words of the text, in order.
C12_ShortTextOneChunk ==
    (Chunked /\ ~Blank(text) /\ Len(split_words(text)) <= maxWords) =>
        /\ Len(windowChunks) = 1
        /\ windowChunks[1] = strip(text)
        /\ split_words(windowChunks[1]) = split_words(text)

\* a text of exactly maxWords words, two or more, that single spaces do not
\* separate, was returned as one chunk
C12_Witness ==
    /\ Chunked
    /\ maxWords >= 2
    /\ Len(words) = maxWords
    /\ strip(text) # join(words, <<" ">>)
    /\ Len(windowChunks) = 1

\* the end of the window that starts at windowStart
CurrentEnd == Min(windowStart + maxWords, Len(words))

\* C13: in every iteration of the loop, for every configuration (overlapWords
\* at or above maxWords included), either the window end has reached the
\* word count and the loop stops, or the next window starts at
\* max(windowEnd - overlapWords, previousStart + 1), strictly after the
\* previous start; and the loop terminates.
C13_ForwardProgress ==
    /\ [][pc = "sliding" =>
             IF CurrentEnd >= Len(words)
                 THEN pc' = "chunked"
                 ELSE /\ pc' = "sliding"
                      /\ windowStart' = Max(CurrentEnd - overlapWords, windowStart + 1)
                      /\ windowStart' > windowStart]_vars
    /\ <>Chunked

\* the loop has advanced twice under an overlap that is not below the window size
C13_Witness ==
    /\ pc = "sliding"
    /\ overlapWords >= maxWords
    /\ windowStart >= 2

\* the specification's scenario: max_words + 5 words under the defaults
Scenario ==
    /\ text = ScenarioText
    /\ maxWords = max_words
    /\ minWords = min_words
    /\ overlapWords = overlap_words

\* C14: in the scenario (305 words, maxWords = 300, minWords = 1,
\* overlapWords = 50) the result is two chunks, words 0..299 and words
\* 250..304, each rejoined with single spaces; and whenever overlapWords <
\* maxWords, a window and the next one share exactly overlapWords words.
C14_BoundaryArithmetic ==
    /\ [](Scenario /\ Chunked =>
             windowChunks =
                 << join(SubSeq(ScenarioWords, 1, max_words), <<" ">>),
                    join(SubSeq(ScenarioWords, max_words - overlap_words + 1,
                                max_words + 5), <<" ">>) >>)
    /\ [][(pc = "sliding" /\ pc' = "sliding" /\ overlapWords < maxWords) =>
             /\ windowStart' <= CurrentEnd
             /\ CurrentEnd - windowStart' = overlapWords]_vars

\* the scenario returned its two chunks
C14_Witness ==
    /\ Scenario
    /\ Chunked
    /\ Len(windowChunks) = 2

\* C15 as stated: maxWords + 1 words and overlapWords < maxWords give at
\* least two chunks, for any minWords.
C15_Original ==
    (Chunked /\ Len(split_words(text)) = maxWords + 1 /\ overlapWords < maxWords) =>
        Len(windowChunks) >= 2

\* C15: maxWords + 1 words, overlapWords < maxWords and minWords <=
\* overlapWords + 1 give at least two chunks.
C15_TwoChunks ==
    (/\ Chunked
     /\ Len(split_words(text)) = maxWords + 1
     /\ overlapWords < maxWords
     /\ minWords <= overlapWords + 1) =>
        Len(windowChunks) >= 2

\* maxWords + 1 words were cut into two chunks that overlap
C15_Witness ==
    /\ Chunked
    /\ Len(words) = maxWords + 1
    /\ 0 < overlapWords
    /\ overlapWords < maxWords
    /\ minWords = overlapWords + 1
    /\ Len(windowChunks) = 2

\* chunk_text returned at line 131: no boundary beyond position 0 was found
WholeTextPath == Len(story_boundaries) = 1

\* every chunk the chunker produced itself is at most 3 x chunk_size long
NoStoryOversized ==
    \A i \in 1..Len(result) : IsStory(result[i]) => Len(result[i].content) <= Threshold

\* C16 as stated: on every path, no chunk chunk_text returns (here: no chunk
\* it produced itself) is longer than 3 x chunk_size characters.
C16_Original == Returned => NoStoryOversized

\* C16: on the blank-line path (two or more segments) and on the pattern
\* path (two or more boundaries) every returned chunk is a sub-chunk of the
\* splitter or at most 3 x chunk_size characters long; when no boundary
\* beyond position 0 is found, the trimmed text is returned whole, whatever
\* its length.
C16_OversizeBound ==
    Returned =>
        IF WholeTextPath
            THEN result = (IF Blank(text) THEN <<>> ELSE <<Story(strip(text))>>)
            ELSE NoStoryOversized

\* a text with a blank-line split of a single segment and no boundary beyond 0
\* was returned whole although longer than 3 x chunk_size
C16_Witness ==
    /\ Returned
    /\ WholeTextPath
    /\ contains(text, <<NL, NL>>)
    /\ Len(result) = 1
    /\ Len(result[1].content) > Threshold

\* _find_story_boundaries returned
Found == pc = "found"

\* the offset in the text of the start of its i-th line (i from 1)
LineStart(s, i) ==
    IF i = 1 THEN 0 ELSE Len(join(SubSeq(Lines(s), 1, i - 1), <<NL>>)) + 1

\* the returned list holds the offset p
IsBoundary(p) == \E k \in 1..Len(story_boundaries) : story_boundaries[k] = p

\* the line, trimmed, ends in a sentence terminator
EndsSentence(line) ==
    \/ endswith(strip(line), ".")
    \/ endswith(strip(line), "!")
    \/ endswith(strip(line), "?")

\* C17: a blank line that is neither the first nor the last line is a
\* boundary exactly when the next line, trimmed, is non-empty, shorter than
\* 100 characters and does not end in '.', '!' or '?'.
C17_Original ==
    Found =>
        \A i \in 2..(Len(Lines(text)) - 1) :
            Blank(Lines(text)[i]) =>
                (IsBoundary(LineStart(text, i)) <=>
                    /\ ~Blank(Lines(text)[i + 1])
                    /\ Len(strip(Lines(text)[i + 1])) < 100
                    /\ ~EndsSentence(Lines(text)[i + 1]))

\* a signature matches the trimmed line as it is written, capitals as capitals
IsCapitalizedSignature(line) ==
    \E p \in 1..Len(StoryPatterns) : re_match(StoryPatterns[p], strip(line), FALSE)

\* C18: a non-blank line, not the first, is a boundary only if, trimmed, it
\* starts with one of the signatures as they are listed: a capitalized word
\* before the number and colon or dash, an upper-case letter after "N. ".
C18_Original ==
    Found =>
        \A i \in 2..Len(Lines(text)) :
            (~Blank(Lines(text)[i]) /\ IsBoundary(LineStart(text, i))) =>
                IsCapitalizedSignature(Lines(text)[i])

\* the value of an argument that the claim takes to be in force: the value
\* passed, the constructor's only when the argument is None
PassedOr(arg, field) == IF arg = None THEN field ELSE arg[1]

\* C19: a passed chunk_size or chunk_overlap overrides the constructor's for
\* the call, chunk_overlap = 0 included: a segment is split exactly when it
\* is longer than 3 x the passed chunk_size, and the splitter is built with
\* the passed chunk_size and the passed chunk_overlap.
C19_Original ==
    (Returned /\ ~WholeTextPath) =>
        \A i \in 1..Len(result) :
            IF IsStory(result[i])
                THEN Len(result[i].content) <= 3 * PassedOr(arg_size, chunk_size)
                ELSE /\ Len(result[i].split_of) > 3 * PassedOr(arg_size, chunk_size)
                     /\ result[i].chunk_size = PassedOr(arg_size, chunk_size)
                     /\ result[i].chunk_overlap = PassedOr(arg_overlap, chunk_overlap)

\* the segment has a signature line after its first line
HasInnerSignature(segment) ==
    \E i \in 2..Len(Lines(segment)) : IsSignatureLine(Lines(segment)[i])

\* C20: with two or more non-empty segments of the split on the double
\* newline, chunk_text returns the segments (the oversized ones split) and
\* never computes the pattern boundaries, so a signature line inside a
\* segment does not cut it; with zero or one segment the boundaries are
\* computed; the slices between them are returned when there is a boundary
\* beyond position 0, and the whole trimmed text only when there is none.
C20_CascadeOrder ==
    Returned =>
        /\ Len(Segments(text)) >= 2 =>
              /\ story_boundaries = <<>>
              /\ result = SplitOversized(Segments(text))
        /\ Len(Segments(text)) <= 1 =>
              /\ story_boundaries # <<>>
              /\ story_boundaries[1] = 0
              /\ Len(story_boundaries) > 1 => result = SplitOversized(PatternStories)
              /\ Len(story_boundaries) = 1 =>
                    result = (IF Blank(text) THEN <<>> ELSE <<Story(strip(text))>>)

\* two segments were returned, one of them with a signature line inside it
C20_Witness ==
    /\ Returned
    /\ Len(Segments(text)) = 2
    /\ \E k \in 1..2 : HasInnerSignature(Segments(text)[k])
    /\ Len(result) = 2
    /\ NoSplitterUsed

\* text[start:end] of the k-th boundary, before trimming
RawSlice(k) ==
    SubSeq(text, story_boundaries[k] + 1,
           IF k < Len(story_boundaries) THEN story_boundaries[k + 1] ELSE Len(text))

\* C21: the list returned by _find_story_boundaries starts with 0, is
\* strictly increasing, and every entry is the offset of the start of a
\* line of the text and at most len(text); when there are several
\* boundaries every slice text[start:end] has start < end <= len(text), and
\* the slices, in order, make up the text.
C21_BoundariesIncreasing ==
    Found =>
        /\ Len(story_boundaries) >= 1
        /\ story_boundaries[1] = 0
        /\ \A k \in 1..(Len(story_boundaries) - 1) :
              story_boundaries[k] < story_boundaries[k + 1]
        /\ \A k \in 1..Len(story_boundaries) :
              /\ \E i \in 1..Len(Lines(text)) : story_boundaries[k] = LineStart(text, i)
              /\ story_boundaries[k] <= Len(text)
        /\ Len(story_boundaries) > 1 =>
              /\ story_boundaries[Len(story_boundaries)] < Len(text)
              /\ \A k \in 1..Len(story_boundaries) : RawSlice(k) # <<>>
        /\ Flatten([k \in 1..Len(story_boundaries) |-> RawSlice(k)]) = text

\* three boundaries were found, the second by the blank-line test and the
\* third by a signature
C21_Witness ==
    /\ Found
    /\ Len(story_boundaries) = 3
    /\ \E i \in 2..Len(Lines(text)) :
          /\ story_boundaries[2] = LineStart(text, i)
          /\ strip(Lines(text)[i]) = <<>>
    /\ \E i \in 2..Len(Lines(text)) :
          /\ story_boundaries[3] = LineStart(text, i)
          /\ IsSignatureLine(Lines(text)[i])

\* the services execute may call, in the order of its steps
IngestSteps == <<"load_pdf", "chunk_text", "generate_embeddings_batch", "add_chunks">>

\* execute raised
IngestFailed == pc = "failed" /\ calls # <<>>

\* C22: execute calls load_pdf, chunk_text, generate_embeddings_batch and
\* add_chunks in this order, each at most once; a step that ends in an
\* exception leaves the collection as it was; a document without content or
\* an empty chunk list gives ValueError with no call of the embedding
\* service or of add_chunks; after a failure of load_pdf or of the embedding
\* service add_chunks is not called.
C22_IngestOrderAndFailures ==
    /\ [](/\ calls = SubSeq(IngestSteps, 1, Len(calls))
          /\ IngestFailed => collection = <<>>
          /\ (IngestFailed /\ document # <<>> /\ document.content = <<>>) =>
                /\ raised = "ValueError"
                /\ calls = <<"load_pdf">>
          /\ (IngestFailed /\ document # <<>> /\ document.content # <<>> /\ result = <<>>) =>
                /\ raised = "ValueError"
                /\ calls = <<"load_pdf", "chunk_text">>
          /\ (IngestFailed /\ document = <<>>) => calls = <<"load_pdf">>
          /\ (IngestFailed /\ raised = "APIError") =>
                calls = <<"load_pdf", "chunk_text", "generate_embeddings_batch">>)
    /\ [][pc' = "failed" => collection' = collection]_vars

\* the chunker returned nothing for a document with content, and execute raised
C22_Witness ==
    /\ IngestFailed
    /\ document # <<>>
    /\ document.content # <<>>
    /\ result = <<>>
    /\ raised = "ValueError"

\* execute raised on a document without content
C22_WitnessNoContent ==
    /\ IngestFailed
    /\ document # <<>>
    /\ document.content = <<>>

\* the embedding service raised
C22_WitnessEmbedFailed == IngestFailed /\ raised = "APIError"

\* the names of the services called for the query, in order
QueryCallNames == [i \in 1..Len(query_calls) |-> query_calls[i].name]

\* SearchStoriesUseCase.execute, called directly, returned
SearchReturned == entry = "search" /\ pc = "returned"

\* C23: SearchStoriesUseCase.execute on an empty or whitespace-only query
\* returns the empty list and calls neither the embedding service nor the
\* vector store; on any other query it calls generate_embedding(query)
\* first and once, and when it returns it has called search_similar once,
\* after generate_embedding, with the embedding that call returned and with
\* the top_k it was given, and it returns the list search_similar returned.
C23_SearchCalls ==
    entry = "search" =>
        /\ QueryCallNames \in { <<>>, <<"generate_embedding">>,
                                <<"generate_embedding", "search_similar">> }
        /\ Blank(query) =>
              /\ pc = "returned"
              /\ search_results = <<>>
              /\ query_calls = <<>>
        /\ ~Blank(query) =>
              /\ query_calls[1] = [name |-> "generate_embedding", text |-> query]
              /\ pc = "returned" =>
                    /\ Len(query_calls) = 2
                    /\ query_calls[2].embedding = <<query>>
                    /\ query_calls[2].embedding = query_embedding
                    /\ query_calls[2].top_k = top_k
                    /\ search_results = query_calls[2].returned

\* a search with top_k smaller than 3 returned top_k results from a
\* collection of more rows
C23_Witness ==
    /\ SearchReturned
    /\ ~Blank(query)
    /\ top_k = 2
    /\ Len(AllRows(collection)) = 3
    /\ Len(search_results) = 2

\* a search on a whitespace-only query returned
C23_WitnessBlank == SearchReturned /\ query # <<>> /\ Blank(query)

\* the number of calls of the LLM service
LlmCalls == Len(SelectSeq(query_calls, LAMBDA c : c.name = "generate_response"))

\* C24: in GenerateResponseUseCase.execute the LLM is not called while the
\* search has returned nothing; when the search returns no result (a blank
\* query included) the response is the fixed message with no citation and
\* the LLM was not called; otherwise the LLM is called exactly once, with
\* the chunks of the results, and the citations returned are the chunks of
\* the search results, one per result, in rank order.
C24_ResponseCitations ==
    entry = "respond" =>
        /\ LlmCalls <= 1
        /\ search_results = <<>> => LlmCalls = 0
        /\ Blank(query) => search_results = <<>> /\ query_calls = <<>>
        /\ (pc = "returned" /\ search_results = <<>>) =>
              response = [response |-> NotFoundMessage, citations |-> <<>>,
                          query |-> query]
        /\ (pc = "returned" /\ search_results # <<>>) =>
              /\ LlmCalls = 1
              /\ query_calls[Len(query_calls)].name = "generate_response"
              /\ Len(response.citations) = Len(search_results)
              /\ \A i \in 1..Len(search_results) :
                    /\ search_results[i].rank = i
                    /\ response.citations[i] = search_results[i].chunk
                    /\ query_calls[Len(query_calls)].context_chunks[i] = search_results[i].chunk

\* a response with three citations was returned
C24_Witness ==
    /\ entry = "respond"
    /\ pc = "returned"
    /\ Len(search_results) = 3
    /\ Len(response.citations) = 3
    /\ response.citations[1] # response.citations[2]

\* the fixed response was returned for a query that is not blank
C24_WitnessNotFound ==
    /\ entry = "respond"
    /\ pc = "returned"
    /\ ~Blank(query)
    /\ search_results = <<>>
    /\ response # <<>>

\* add_chunks is being called on its own
AddChunksCalled == direct_call = "add_chunks" /\ pc = "ready" /\ pc' # "ready"

\* a chunk of the list has no embedding
SomeWithoutEmbedding == \E i \in 1..Len(arg_chunks) : arg_chunks[i].embedding = <<>>

\* the metadata of a chunk extended by chunk_id
Extended(chunk) == [chunk_id |-> chunk.id] @@ chunk.metadata

\* the same with str(v) for every value that is not a str, int, float or bool
\* (of the values in use that is the None of author)
ExtendedAsStored(chunk) ==
    [k \in DOMAIN Extended(chunk) |->
        IF k = "author" /\ Extended(chunk)[k] = None
            THEN <<"N", "o", "n", "e">>
            ELSE Extended(chunk)[k]]

\* the call had no effect on the collection, or added to it one row per
\* chunk of the list, in order, with the metadata given by stored
AddedAllOrNothing(stored(_)) ==
    AddChunksCalled =>
        IF arg_chunks = <<>>
            THEN collection' = collection /\ raised' = ""
        ELSE IF SomeWithoutEmbedding
            THEN collection' = collection /\ raised' = "ValueError"
        ELSE /\ raised' = ""
             /\ AllRows(collection') =
                    AllRows(collection) \o
                        [i \in 1..Len(arg_chunks) |->
                            [id |-> arg_chunks[i].id,
                             document |-> arg_chunks[i].content,
                             embedding |-> arg_chunks[i].embedding,
                             metadata |-> stored(arg_chunks[i])]]

\* C25 as stated: add_chunks raises ValueError and adds nothing when a chunk
\* of the list has no embedding, returns without touching the collection on
\* an empty list, and otherwise adds every chunk with its id, content,
\* embedding and its metadata extended by chunk_id.
C25_Original == [][AddedAllOrNothing(Extended)]_vars

\* C25: add_chunks raises ValueError and adds nothing when a chunk of the
\* list has no embedding (the chunks before it included), returns without
\* touching the collection on an empty list, and otherwise adds every chunk
\* with its id, content, embedding and its metadata extended by chunk_id in
\* which a value that is not a str, int, float or bool is replaced by its
\* str(): None is stored as 'None'.
C25_AddChunksAllOrNothing == [][AddedAllOrNothing(ExtendedAsStored)]_vars

\* add_chunks raised on a list whose first chunk has an embedding, the
\* collection holding rows before the call
C25_Witness ==
    /\ direct_call = "add_chunks"
    /\ pc = "failed"
    /\ Len(arg_chunks) >= 2
    /\ arg_chunks[1].embedding # <<>>
    /\ SomeWithoutEmbedding
    /\ collection # <<>>

\* add_chunks stored a chunk whose metadata holds None
C25_WitnessStored ==
    /\ direct_call = "add_chunks"
    /\ pc = "returned"
    /\ \E i \in 1..Len(arg_chunks) :
          "author" \in DOMAIN arg_chunks[i].metadata /\ arg_chunks[i].metadata.author = None

\* generate_embeddings_batch, called on its own, returned
BatchReturned == direct_call = "generate_embeddings_batch" /\ pc = "returned"

\* the list returned is aligned with the texts: as long as the list of
\* texts, with the embedding of the i-th text at i when that text is not
\* blank and the empty embedding when it is
Aligned ==
    /\ Len(embeddings) = Len(arg_texts)
    /\ \A i \in 1..Len(arg_texts) :
          embeddings[i] = IF Blank(arg_texts[i].chunk.content) THEN <<>>
                          ELSE <<arg_texts[i]>>

\* C26: for every list of texts generate_embeddings_batch returns a list of
\* the same length, whose i-th entry is the embedding of the i-th text when
\* that text is not blank and the empty embedding when it is.
C26_Original == BatchReturned => Aligned

\* what holds of the code: the list is aligned when the list of texts is
\* empty or holds a text that is not blank
C26_AlignedUnlessAllBlank ==
    (BatchReturned /\ \E i \in 1..Len(arg_texts) : ~Blank(arg_texts[i].chunk.content))
        => Aligned

\* a list with a blank text between two others was embedded
C26_WitnessAligned ==
    /\ BatchReturned
    /\ Len(arg_texts) = 3
    /\ Blank(arg_texts[2].chunk.content)
    /\ ~Blank(arg_texts[1].chunk.content)
    /\ ~Blank(arg_texts[3].chunk.content)
    /\ arg_texts[1] # arg_texts[3]

\* the sum of the chunk counts of the success messages logged from entry i on
RECURSIVE LoggedChunks(_)
LoggedChunks(i) ==
    IF i > Len(startup_log) THEN 0
    ELSE (IF startup_log[i].msg = "preloaded" THEN startup_log[i].chunks ELSE 0)
             + LoggedChunks(i + 1)

\* startup_event returned
Started == pc = "started"

\* C27: startup_event calls execute on the files of story_files one by one
\* in list order, each exactly once; an exception of execute is logged and
\* the loop goes on to the next file; startup_event always comes to its
\* end without raising; the total it reports is the sum of stories_ingested
\* over the files whose execute returned, which is the number of rows the
\* preload added to the collection.
C27_PreloadIsolatesFailures ==
    /\ [](/\ Len(attempted) <= Len(story_files)
          /\ \A i \in 1..Len(attempted) : attempted[i] = story_files[i]
          /\ pc # "failed"
          /\ total_ingested = LoggedChunks(1)
          /\ total_ingested = Len(AllRows(collection))
          /\ (Started /\ story_files # <<>>) =>
                /\ attempted = story_files
                /\ Len(startup_log) = Len(story_files) + 2
                /\ startup_log[Len(startup_log)] =
                       [level |-> "info", msg |-> "complete",
                        total |-> LoggedChunks(1), files |-> Len(story_files)])
    /\ [][attempted' # attempted =>
             /\ Len(attempted) < Len(story_files)
             /\ attempted' = Append(attempted, story_files[Len(attempted) + 1])]_vars
    /\ <>Started

\* startup came to its end after the first of two files failed and the
\* second was ingested
C27_Witness ==
    /\ Started
    /\ Len(story_files) = 2
    /\ Len(startup_log) = 4
    /\ startup_log[2].level = "error"
    /\ startup_log[3].msg = "preloaded"
    /\ total_ingested = 2
    /\ startup_log[4].total = 2

====
